---- MODULE Spec2Model ----
(***************************************************************************)
(* Model of the quiz application's schema migration engine                 *)
(* (database/migrations.py over database/connection.py) and of the quiz    *)
(* session window with its countdown timer (gui/quiz_window.py).           *)
(*                                                                         *)
(* Migration versions "001".."005" are written 1..5: the zero-padded       *)
(* strings sort exactly as these numbers do.                               *)
(***************************************************************************)
EXTENDS Integers, Sequences, FiniteSets, TLC

VARIABLES db, lastCall,
          questions, show_timer, auto_submit, total_time_limit,
          current_question_index, user_answers, answer_var, time_remaining,
          quiz_completed, timer, tickPc, mainPc, windowOpen, ticks

vars == <<db, lastCall, questions, show_timer, auto_submit, total_time_limit,
          current_question_index, user_answers, answer_var, time_remaining,
          quiz_completed, timer, tickPc, mainPc, windowOpen, ticks>>

sessionVars == <<questions, show_timer, auto_submit, total_time_limit,
                 current_question_index, user_answers, answer_var,
                 time_remaining, quiz_completed, timer, tickPc, mainPc,
                 windowOpen, ticks>>

----------------------------------------------------------------------------
(* The embedded store: tables, the optional columns of questions, indexes, *)
(* the rows of schema_migrations and of quiz_results.                      *)

Versions == 1..5

IndexTable ==
    [i \in {"idx_questions_category", "idx_questions_created_at",
            "idx_questions_difficulty", "idx_users_username",
            "idx_users_role", "idx_quiz_results_user",
            "idx_quiz_results_completed"} |->
        CASE i \in {"idx_questions_category", "idx_questions_created_at",
                    "idx_questions_difficulty"} -> "questions"
          [] i \in {"idx_users_username", "idx_users_role"} -> "users"
          [] OTHER -> "quiz_results"]

Ok(d) == [ok |-> TRUE, db |-> d]

Fail(d) == [ok |-> FALSE, db |-> d]

\* Run the next statement only when the previous one did not raise.
Then(r, Stmt(_)) == IF r.ok THEN Stmt(r.db) ELSE r

RangeOf(s) == {s[i] : i \in 1..Len(s)}

\* DROP TABLE IF EXISTS t: the table goes with its rows, columns and indexes.
DropTable(d, t) ==
    Ok([d EXCEPT !.tables = @ \ {t},
                 !.indexes = {i \in @ : IndexTable[i] # t},
                 !.qcols = IF t = "questions" THEN {} ELSE @,
                 !.qrows = IF t = "questions" THEN FALSE ELSE @,
                 !.schema_migrations = IF t = "schema_migrations" THEN <<>> ELSE @,
                 !.quiz_results = IF t = "quiz_results" THEN <<>> ELSE @])

\* CREATE TABLE IF NOT EXISTS t; cols are the optional columns of a new
\* questions table.
CreateTable(d, t, cols) ==
    IF t \in d.tables THEN Ok(d)
    ELSE Ok([d EXCEPT !.tables = @ \cup {t},
                      !.qcols = IF t = "questions" THEN cols ELSE @])

\* CREATE INDEX IF NOT EXISTS i ON table(col); col = "" for a base column.
CreateIndex(d, i, col) ==
    IF i \in d.indexes THEN Ok(d)
    ELSE IF IndexTable[i] \notin d.tables THEN Fail(d)
    ELSE IF col # "" /\ col \notin d.qcols THEN Fail(d)
    ELSE Ok([d EXCEPT !.indexes = @ \cup {i}])

\* DROP INDEX IF EXISTS i
DropIndex(d, i) == Ok([d EXCEPT !.indexes = @ \ {i}])

\* ALTER TABLE questions ADD COLUMN col
AddColumn(d, col) ==
    IF "questions" \notin d.tables \/ col \in d.qcols THEN Fail(d)
    ELSE Ok([d EXCEPT !.qcols = @ \cup {col}])

\* UPDATE questions SET col = <default>: the column stays, only data is reset.
ClearColumn(d, col) ==
    IF "questions" \notin d.tables \/ col \notin d.qcols THEN Fail(d)
    ELSE Ok(d)

----------------------------------------------------------------------------
(* DatabaseManager                                                         *)

_create_tables(d) ==
    LET s1(x) == CreateTable(x, "questions", {"tags", "difficulty"})
        s2(x) == CreateTable(x, "users", {})
        s3(x) == CreateTable(x, "quiz_results", {})
        s4(x) == CreateIndex(x, "idx_questions_category", "")
        s5(x) == CreateIndex(x, "idx_questions_difficulty", "difficulty")
        s6(x) == CreateIndex(x, "idx_quiz_results_user", "")
        s7(x) == CreateIndex(x, "idx_quiz_results_completed", "")
    IN Then(Then(Then(Then(Then(Then(s1(d), s2), s3), s4), s5), s6), s7)

_insert_sample_data(d) ==
    IF d.qrows THEN Ok(d)
    ELSE IF d.qcols # {"tags", "difficulty"} THEN Fail(d)
    ELSE Ok([d EXCEPT !.qrows = TRUE])

\* No BEGIN is issued: each DDL statement is committed as it runs, so the
\* statements before a failing one keep their effect.
_init_database(d) == Then(_create_tables(d), _insert_sample_data)

FreshStore ==
    _init_database([tables |-> {}, qcols |-> {}, indexes |-> {},
                    qrows |-> FALSE, schema_migrations |-> <<>>,
                    quiz_results |-> <<>>]).db

----------------------------------------------------------------------------
(* Migration units                                                         *)

Up(v, d) ==
    CASE v = 1 ->
           LET s2(x) == CreateTable(x, "users", {})
           IN Then(CreateTable(d, "questions", {}), s2)
      [] v = 2 ->
           LET s2(x) == CreateIndex(x, "idx_questions_created_at", "")
               s3(x) == CreateIndex(x, "idx_users_username", "")
               s4(x) == CreateIndex(x, "idx_users_role", "")
           IN Then(Then(Then(CreateIndex(d, "idx_questions_category", ""),
                             s2), s3), s4)
      [] v = 3 -> AddColumn(d, "tags")
      [] v = 4 ->
           LET s2(x) == CreateIndex(x, "idx_questions_difficulty", "difficulty")
           IN Then(AddColumn(d, "difficulty"), s2)
      [] v = 5 ->
           LET s2(x) == CreateIndex(x, "idx_quiz_results_user", "")
               s3(x) == CreateIndex(x, "idx_quiz_results_completed", "")
           IN Then(Then(CreateTable(d, "quiz_results", {}), s2), s3)

Down(v, d) ==
    CASE v = 1 ->
           LET s2(x) == DropTable(x, "users")
           IN Then(DropTable(d, "questions"), s2)
      [] v = 2 ->
           LET s2(x) == DropIndex(x, "idx_questions_created_at")
               s3(x) == DropIndex(x, "idx_users_username")
               s4(x) == DropIndex(x, "idx_users_role")
           IN Then(Then(Then(DropIndex(d, "idx_questions_category"),
                             s2), s3), s4)
      [] v = 3 -> ClearColumn(d, "tags")
      [] v = 4 ->
           LET s2(x) == ClearColumn(x, "difficulty")
           IN Then(DropIndex(d, "idx_questions_difficulty"), s2)
      [] v = 5 -> DropTable(d, "quiz_results")

----------------------------------------------------------------------------
(* MigrationManager                                                        *)

\* The registered units, sorted by version.
migrations == <<1, 2, 3, 4, 5>>

create_migrations_table(d) == CreateTable(d, "schema_migrations", {}).db

\* SELECT version FROM schema_migrations; a missing table gives [].
get_applied_migrations(d) ==
    IF "schema_migrations" \in d.tables THEN RangeOf(d.schema_migrations)
    ELSE {}

\* get_pending_migrations without the filter on the applied versions.
get_pending_migrations_unfiltered(d) == migrations

get_pending_migrations(d) ==
    SelectSeq(migrations, LAMBDA v : v \notin get_applied_migrations(d))

\* INSERT INTO schema_migrations: version is the primary key.
InsertRecord(d, v) ==
    IF "schema_migrations" \notin d.tables THEN Fail(d)
    ELSE IF v \in RangeOf(d.schema_migrations) THEN Fail(d)
    ELSE Ok([d EXCEPT !.schema_migrations = Append(@, v)])

\* DELETE FROM schema_migrations WHERE version = v
DeleteRecord(d, v) ==
    IF "schema_migrations" \notin d.tables THEN Fail(d)
    ELSE Ok([d EXCEPT !.schema_migrations = SelectSeq(@, LAMBDA x : x # v)])

\* apply_migration without the ROLLBACK: a failed unit keeps what its up()
\* had already done.
apply_migration_tx_norollback(d, v) ==
    LET ins(x) == InsertRecord(x, v)
    IN Then(Up(v, d), ins)

\* BEGIN; up; INSERT; COMMIT -- or ROLLBACK to the state before BEGIN.
apply_migration_tx(d, v) ==
    LET ins(x) == InsertRecord(x, v)
        r == Then(Up(v, d), ins)
    IN IF r.ok THEN r ELSE Fail(d)

\* rollback_migration without the ROLLBACK: a failed revert keeps what its
\* down() had already done.
rollback_migration_tx_norollback(d, v) ==
    LET del(x) == DeleteRecord(x, v)
    IN Then(Down(v, d), del)

\* BEGIN; down; DELETE; COMMIT -- or ROLLBACK to the state before BEGIN.
rollback_migration_tx(d, v) ==
    LET del(x) == DeleteRecord(x, v)
        r == Then(Down(v, d), del)
    IN IF r.ok THEN r ELSE Fail(d)

\* migrate() that goes on with the later units after a failure.
RECURSIVE migrate_loop_continue(_, _, _)
migrate_loop_continue(d, pending, attempted) ==
    IF pending = <<>> THEN [ok |-> TRUE, db |-> d, attempted |-> attempted]
    ELSE LET r == apply_migration_tx(d, Head(pending))
             rest == migrate_loop_continue(r.db, Tail(pending),
                                           Append(attempted, Head(pending)))
         IN [rest EXCEPT !.ok = r.ok /\ rest.ok]

\* The loop of migrate(): apply each pending unit, stop at the first failure.
RECURSIVE migrate_loop(_, _, _)
migrate_loop(d, pending, attempted) ==
    IF pending = <<>> THEN [ok |-> TRUE, db |-> d, attempted |-> attempted]
    ELSE LET r == apply_migration_tx(d, Head(pending))
         IN IF ~r.ok
            THEN [ok |-> FALSE, db |-> r.db,
                  attempted |-> Append(attempted, Head(pending))]
            ELSE migrate_loop(r.db, Tail(pending),
                              Append(attempted, Head(pending)))

migrate_run(d) ==
    LET d1 == create_migrations_table(d)
    IN migrate_loop(d1, get_pending_migrations(d1), <<>>)

\* The drop loop of reset_database sparing schema_migrations.
reset_drop_keeps_bookkeeping(d) ==
    LET s2(x) == DropTable(x, "users")
        s3(x) == DropTable(x, "quiz_results")
    IN Then(Then(DropTable(d, "questions"), s2), s3).db

\* The drop loop of reset_database: every table of sqlite_master is dropped
\* (sqlite_sequence, the one it spares, is not modelled).
reset_drop(d) ==
    LET s2(x) == DropTable(x, "users")
        s3(x) == DropTable(x, "quiz_results")
        s4(x) == DropTable(x, "schema_migrations")
    IN Then(Then(Then(DropTable(d, "questions"), s2), s3), s4).db

\* The tables are dropped, then migrate() runs.
reset_run(d) == migrate_run(reset_drop(d))

----------------------------------------------------------------------------
(* Calls on the migration engine.  lastCall is the last call made: its     *)
(* name, argument, return value, the units migrate() handed to             *)
(* apply_migration (in order), and the store as it was before the call.    *)
(* For reset_database, which takes no argument, arg is the store as its    *)
(* drop loop left it.  For a write of a repository, attempted holds the    *)
(* connection the statement ran on, as the call left it.                   *)

NoCall == [op |-> "none", arg |-> 0, ret |-> TRUE, attempted |-> <<>>,
           before |-> FreshStore]

Call(op, arg, ret, attempted) ==
    [op |-> op, arg |-> arg, ret |-> ret, attempted |-> attempted,
     before |-> db]

migrate ==
    LET r == migrate_run(db)
    IN /\ db' = r.db
       /\ lastCall' = Call("migrate", 0, r.ok, r.attempted)
       /\ UNCHANGED sessionVars

apply_migration(v) ==
    LET r == apply_migration_tx(db, v)
    IN /\ db' = r.db
       /\ lastCall' = Call("apply_migration", v, r.ok, <<>>)
       /\ UNCHANGED sessionVars

rollback_migration(v) ==
    LET r == rollback_migration_tx(db, v)
    IN /\ db' = r.db
       /\ lastCall' = Call("rollback_migration", v, r.ok, <<>>)
       /\ UNCHANGED sessionVars

reset_database ==
    LET r == reset_run(db)
    IN /\ db' = r.db
       /\ lastCall' = Call("reset_database", reset_drop(db), r.ok,
                           r.attempted)
       /\ UNCHANGED sessionVars

\* A new process constructs DatabaseManager on the existing database file.
DatabaseManager_init ==
    LET r == _init_database(db)
    IN /\ db' = r.db
       /\ lastCall' = Call("DatabaseManager", 0, r.ok, <<>>)
       /\ UNCHANGED sessionVars

----------------------------------------------------------------------------
(* The scoped connection.  A connection sees the database file (committed) *)
(* with its own open transaction on top (working); raised tells that an    *)
(* exception is on its way out of the body.                                *)

\* sqlite3.connect
connect(d) == [committed |-> d, working |-> d, open |-> TRUE,
               raised |-> FALSE]

\* cursor.execute of a statement whose outcome on the connection's view is
\* r: a statement that raises changes nothing.
execute(c, r) ==
    IF c.raised THEN c
    ELSE IF r.ok THEN [c EXCEPT !.working = r.db]
    ELSE [c EXCEPT !.raised = TRUE]

\* conn.commit(); the store can refuse it (busy, I/O error), which raises.
commit(c, accepted) ==
    IF c.raised THEN c
    ELSE IF accepted THEN [c EXCEPT !.committed = c.working]
    ELSE [c EXCEPT !.raised = TRUE]

\* conn.rollback()
rollback(c) == [c EXCEPT !.working = c.committed]

\* conn.close(): an open transaction is discarded.
close(c) == [c EXCEPT !.open = FALSE, !.working = c.committed]

\* get_connection after its yield: rollback on an exception, which goes
\* on to the caller; close in every case.  Nothing is committed here.
get_connection_exit(c) == close(IF c.raised THEN rollback(c) ELSE c)

\* execute_insert without its conn.commit().
execute_insert_nocommit(d, r, accepted) ==
    get_connection_exit(execute(connect(d), r))

\* execute_insert: one statement, then conn.commit(), inside the scope.
execute_insert_run(d, r, accepted) ==
    get_connection_exit(commit(execute(connect(d), r), accepted))

\* execute_update: the same body (it returns the row count instead).
execute_update_run(d, r, accepted) ==
    get_connection_exit(commit(execute(connect(d), r), accepted))

\* QuizResultRepository.create's INSERT: the table and the parent table of
\* its foreign key have to exist.
InsertResult(d, score, total) ==
    IF {"quiz_results", "users"} \subseteq d.tables
    THEN Ok([d EXCEPT !.quiz_results =
                Append(@, [score |-> score, total_questions |-> total])])
    ELSE Fail(d)

\* QuestionRepository.delete's DELETE of one question, which may be the
\* last row of the table.
DeleteQuestion(d, last) ==
    IF "questions" \notin d.tables THEN Fail(d)
    ELSE IF ~d.qrows THEN Ok(d)
    ELSE Ok([d EXCEPT !.qrows = ~last])

\* Most rows of quiz_results written through execute_insert.
MaxRows == 2

execute_insert ==
    /\ Len(db.quiz_results) < MaxRows
    /\ \E score \in 0..1, accepted \in BOOLEAN :
          LET c == execute_insert_run(db, InsertResult(db, score, 1),
                                      accepted)
          IN /\ db' = c.committed
             /\ lastCall' = Call("execute_insert",
                                 [score |-> score, total_questions |-> 1,
                                  accepted |-> accepted],
                                 c, <<>>)
    /\ UNCHANGED sessionVars

execute_update ==
    /\ \E last \in BOOLEAN, accepted \in BOOLEAN :
          LET c == execute_update_run(db, DeleteQuestion(db, last), accepted)
          IN /\ db' = c.committed
             /\ lastCall' = Call("execute_update",
                                 [last |-> last, accepted |-> accepted],
                                 c, <<>>)
    /\ UNCHANGED sessionVars

----------------------------------------------------------------------------
(* QuestionRepository.  A text is a sequence of characters, or of runs of  *)
(* characters where no operation looks inside a run; the tags of a         *)
(* question are a list of texts, stored in one TEXT column.  An optional   *)
(* argument is a sequence of no value (None) or one.  In this part the     *)
(* store carries the rows of questions (question_rows) and the last id     *)
(* AUTOINCREMENT gave out (question_seq).  created_at counts seconds from  *)
(* the second the store was made in.                                       *)

\* ','.join(question.tags) if question.tags else ''
RECURSIVE Join(_)
Join(tags) ==
    IF tags = <<>> THEN <<>>
    ELSE IF Len(tags) = 1 THEN tags[1]
    ELSE tags[1] \o <<",">> \o Join(Tail(tags))

\* text.split(','): the pieces between the commas, empty ones included.
RECURSIVE Split(_)
Split(text) ==
    IF \A i \in 1..Len(text) : text[i] # "," THEN <<text>>
    ELSE LET k == CHOOSE i \in 1..Len(text) :
                      /\ text[i] = ","
                      /\ \A j \in 1..(i - 1) : text[j] # ","
         IN <<SubSeq(text, 1, k - 1)>> \o Split(SubSeq(text, k + 1, Len(text)))

\* tag.strip(): the text without its leading and trailing blanks.
RECURSIVE Strip(_)
Strip(text) ==
    IF text = <<>> THEN text
    ELSE IF text[1] = " " THEN Strip(Tail(text))
    ELSE IF text[Len(text)] = " " THEN Strip(SubSeq(text, 1, Len(text) - 1))
    ELSE text

\* [tag.strip() for tag in text.split(',') if tag.strip()]
ParseTags(text) ==
    LET pieces == Split(text)
        stripped == [i \in 1..Len(pieces) |-> Strip(pieces[i])]
    IN SelectSeq(stripped, LAMBDA t : t # <<>>)

\* The number of sample questions _insert_sample_data leaves in a new
\* store; the rows made later get the ids after theirs.
SeedCount == 8

\* One sample question: all are in category Python, made in the same
\* second, with the tags "python,<tag>".
SampleRow(id, prompt, a, b, c, answer, difficulty, tag) ==
    [id |-> id, prompt |-> prompt, option_a |-> <<a>>, option_b |-> <<b>>,
     option_c |-> <<c>>, answer |-> answer, category |-> <<"Python">>,
     difficulty |-> difficulty, created_at |-> 0,
     tags |-> <<"python", ",", tag>>]

\* The sample questions.  Their prompts are Vietnamese sentences; each is
\* written by the word Python where it has it and a stand-in for the
\* rest.
sample_questions ==
    <<SampleRow(1, <<"Python", " first released in which year?">>,
                "A. 1989", "B. 1991", "C. 1995", "B", "Easy", "history"),
      SampleRow(2, <<"Who is the father of ", "Python", "?">>,
                "A. Guido van Rossum", "B. Bill Gates", "C. Linus Torvalds",
                "A", "Easy", "creator"),
      SampleRow(3, <<"Which library works with arrays in ", "Python", "?">>,
                "A. Pandas", "B. NumPy", "C. Matplotlib", "B", "Medium",
                "libraries"),
      SampleRow(4, <<"Which method adds an element at the end of a list?">>,
                "A. append()", "B. insert()", "C. extend()", "A", "Easy",
                "list"),
      SampleRow(5, <<"In ", "Python", ", which keyword defines a function?">>,
                "A. function", "B. def", "C. func", "B", "Easy", "syntax"),
      SampleRow(6, <<"Which data structure in ", "Python",
                     " is ordered and mutable?">>,
                "A. tuple", "B. set", "C. list", "C", "Medium",
                "data-structures"),
      SampleRow(7, <<"Which method turns a string into upper case?">>,
                "A. upper()", "B. capitalize()", "C. title()", "A", "Easy",
                "string"),
      SampleRow(8, <<"Which keyword handles exceptions in ", "Python", "?">>,
                "A. catch", "B. except", "C. handle", "B", "Medium",
                "exception")>>

\* The store with the rows of questions in it.
WithQuestions(d, rows, seq) ==
    [question_rows |-> rows, question_seq |-> seq] @@ d

\* The latest second a row was made in.
RECURSIVE Latest(_)
Latest(rows) ==
    IF rows = <<>> THEN 0
    ELSE LET rest == Latest(Tail(rows))
         IN IF rows[1].created_at > rest THEN rows[1].created_at ELSE rest

\* CURRENT_TIMESTAMP of a write: the second of the latest row or the next.
Clock(d) == {Latest(d.question_rows), Latest(d.question_rows) + 1}

\* The row QuestionRepository.create inserts for question q.
QuestionRow(q, id, now) ==
    [id |-> id, prompt |-> q.prompt, option_a |-> q.option_a,
     option_b |-> q.option_b, option_c |-> q.option_c, answer |-> q.answer,
     category |-> q.category, difficulty |-> q.difficulty,
     created_at |-> now, tags |-> Join(q.tags)]

_row_to_question(row) ==
    [id |-> row.id, prompt |-> row.prompt, option_a |-> row.option_a,
     option_b |-> row.option_b, option_c |-> row.option_c,
     answer |-> row.answer, category |-> row.category,
     difficulty |-> row.difficulty,
     tags |-> IF row.tags # <<>> THEN ParseTags(row.tags) ELSE <<>>]

None == [id |-> 0]

\* An exception that leaves the call.
Raised == [raised |-> TRUE]

\* A statement on questions fails when the table is missing; one that
\* names tags or difficulty, or reads them off a row, fails when the
\* column is.
Readable(d) ==
    "questions" \in d.tables /\ {"tags", "difficulty"} \subseteq d.qcols

\* get_by_id: the question of the row with that id, None without one or
\* when the SELECT fails.
get_by_id(d, id) ==
    LET found == {i \in 1..Len(d.question_rows) : d.question_rows[i].id = id}
    IN IF ~Readable(d) \/ found = {} THEN None
       ELSE _row_to_question(d.question_rows[CHOOSE i \in found : TRUE])

\* Python's truth of an optional text (category) and of an optional name
\* (difficulty): None and the empty string are false.
GivenText(opt) == opt # <<>> /\ opt[1] # <<>>

GivenName(opt) == opt # <<>> /\ opt[1] # ""

Filtered_any_category(rows, category, difficulty) ==
    SelectSeq(rows, LAMBDA r :
        GivenName(difficulty) => r.difficulty = difficulty[1])

\* The rows the conditions 'category = ?' and 'difficulty = ?' keep; a
\* condition is there only when its argument is true.
Filtered(rows, category, difficulty) ==
    SelectSeq(rows, LAMBDA r :
        /\ GivenText(category) => r.category = category[1]
        /\ GivenName(difficulty) => r.difficulty = difficulty[1])

Picks_repeating(n, m) == [1..m -> 1..n]

\* ORDER BY RANDOM() LIMIT m over n rows: the first m places of any order
\* of the rows.
Picks(n, m) ==
    {s \in [1..m -> 1..n] : \A i, j \in 1..m : i # j => s[i] # s[j]}

\* The lists get_random_questions can return.  LIMIT with a negative
\* count is no limit.
get_random_questions(d, count, category, difficulty) ==
    IF ~Readable(d) THEN {<<>>}
    ELSE LET rows == Filtered(d.question_rows, category, difficulty)
             n == Len(rows)
             m == IF count < 0 \/ count > n THEN n ELSE count
         IN {[i \in 1..m |-> _row_to_question(rows[s[i]])] :
                s \in Picks(n, m)}

\* text LIKE '%term%', for terms that cut no run of the text.
Contains(text, term) ==
    \E i \in 1..(Len(text) - Len(term) + 1) :
        SubSeq(text, i, i + Len(term) - 1) = term

Like(r, term) ==
    \/ Contains(r.prompt, term)
    \/ Contains(r.option_a, term)
    \/ Contains(r.option_b, term)
    \/ Contains(r.option_c, term)

\* ORDER BY created_at DESC: rows of one second stay in id order.
RECURSIVE ByCreatedDesc(_, _)
ByCreatedDesc(rows, t) ==
    IF t < 0 THEN <<>>
    ELSE SelectSeq(rows, LAMBDA r : r.created_at = t)
             \o ByCreatedDesc(rows, t - 1)

search(d, search_term, category, difficulty) ==
    IF ~Readable(d) THEN <<>>
    ELSE LET kept == SelectSeq(
                         Filtered(d.question_rows, category, difficulty),
                         LAMBDA r : Like(r, search_term))
             rows == ByCreatedDesc(kept, Latest(kept))
         IN [i \in 1..Len(rows) |-> _row_to_question(rows[i])]

\* The CHECK constraints of questions.
RowAccepted(q) ==
    q.answer \in {"A", "B", "C"} /\ q.difficulty \in {"Easy", "Medium", "Hard"}

\* INSERT INTO questions
InsertQuestion(d, q, now) ==
    IF ~Readable(d) \/ ~RowAccepted(q) THEN Fail(d)
    ELSE Ok([d EXCEPT !.question_rows =
                          Append(@, QuestionRow(q, d.question_seq + 1, now)),
                      !.question_seq = @ + 1,
                      !.qrows = TRUE])

QuestionRepository_create_run_absorbing(d, q, now, accepted) ==
    LET c == execute_insert_run(d, InsertQuestion(d, q, now), accepted)
    IN [ret |-> IF c.raised THEN None
                ELSE [id |-> c.committed.question_seq],
        db |-> c.committed, conn |-> c]

\* create: the id of the new row; a failure is logged and raised again.
\* conn is the connection as the call left it.
QuestionRepository_create_run(d, q, now, accepted) ==
    LET c == execute_insert_run(d, InsertQuestion(d, q, now), accepted)
    IN [ret |-> IF c.raised THEN Raised
                ELSE [id |-> c.committed.question_seq],
        db |-> c.committed, conn |-> c]

\* The rows with the id of question q.
RowsOf(d, id) == {i \in 1..Len(d.question_rows) : d.question_rows[i].id = id}

\* UPDATE questions SET ... WHERE id = ?: the constraints are checked on
\* the row that changes, if there is one; created_at stays (updated_at,
\* which no query reads, is left out of the rows).
UpdateQuestion(d, q) ==
    IF ~Readable(d) THEN Fail(d)
    ELSE IF RowsOf(d, q.id) = {} THEN Ok(d)
    ELSE IF ~RowAccepted(q) THEN Fail(d)
    ELSE Ok([d EXCEPT !.question_rows =
                [i \in 1..Len(@) |->
                    IF @[i].id = q.id
                    THEN QuestionRow(q, q.id, @[i].created_at)
                    ELSE @[i]]])

\* update: whether a row was changed; a failure is logged and False
\* returned.
QuestionRepository_update_run(d, q, accepted) ==
    LET c == execute_update_run(d, UpdateQuestion(d, q), accepted)
    IN [ret |-> [success |-> ~c.raised /\ RowsOf(d, q.id) # {}],
        db |-> c.committed, conn |-> c]

\* DELETE FROM questions WHERE id = ?
DeleteRow(d, id) ==
    IF "questions" \notin d.tables THEN Fail(d)
    ELSE LET left == SelectSeq(d.question_rows, LAMBDA r : r.id # id)
         IN Ok([d EXCEPT !.question_rows = left,
                         !.qrows = left # <<>>])

\* delete: whether a row was deleted; a failure is logged and False
\* returned.
QuestionRepository_delete_run(d, id, accepted) ==
    LET c == execute_update_run(d, DeleteRow(d, id), accepted)
    IN [ret |-> [success |-> ~c.raised /\ RowsOf(d, id) # {}],
        db |-> c.committed, conn |-> c]

----------------------------------------------------------------------------
(* UserRepository.  In this part the store carries the rows of users       *)
(* (user_rows) and the last id given out (user_seq).  last_login is an     *)
(* optional second, NULL until the first login.                            *)

WithUsers(d, rows, seq) == [user_rows |-> rows, user_seq |-> seq] @@ d

\* The user _insert_sample_data leaves in a new store.
sample_users ==
    <<[id |-> 1, username |-> "admin", password_hash |-> "admin123",
       role |-> "admin", last_login |-> <<>>, is_active |-> 1]>>

\* INSERT INTO users: username is UNIQUE, role is 'user' or 'admin'; the
\* Python bool is_active is stored as 1 or 0.
InsertUser(d, user) ==
    IF \/ "users" \notin d.tables
       \/ \E i \in 1..Len(d.user_rows) :
             d.user_rows[i].username = user.username
       \/ user.role \notin {"user", "admin"}
    THEN Fail(d)
    ELSE Ok([d EXCEPT !.user_rows =
                Append(@, [id |-> d.user_seq + 1,
                           username |-> user.username,
                           password_hash |-> user.password_hash,
                           role |-> user.role, last_login |-> <<>>,
                           is_active |-> IF user.is_active THEN 1 ELSE 0]),
                      !.user_seq = @ + 1])

_row_to_user(row) ==
    [id |-> row.id, username |-> row.username,
     password_hash |-> row.password_hash, role |-> row.role,
     is_active |-> row.is_active # 0, last_login |-> row.last_login]

\* get_by_username: the user of the row with that name, None without one
\* or when the SELECT fails.
get_by_username(d, username) ==
    IF "users" \notin d.tables THEN None
    ELSE LET found == {i \in 1..Len(d.user_rows) :
                          d.user_rows[i].username = username}
         IN IF found = {} THEN None
            ELSE _row_to_user(d.user_rows[CHOOSE i \in found : TRUE])

\* UPDATE users SET last_login = CURRENT_TIMESTAMP WHERE id = ?
UpdateLastLogin(d, user_id, now) ==
    IF "users" \notin d.tables THEN Fail(d)
    ELSE Ok([d EXCEPT !.user_rows =
                [i \in 1..Len(@) |->
                    IF @[i].id = user_id
                    THEN [@[i] EXCEPT !.last_login = <<now>>]
                    ELSE @[i]]])

\* update_last_login: the store it leaves (its result is not looked at).
update_last_login(d, user_id, now) ==
    execute_update_run(d, UpdateLastLogin(d, user_id, now), TRUE).committed

authenticate_inactive_too(d, username, password, now) ==
    LET user == get_by_username(d, username)
    IN IF user # None /\ user.password_hash = password
       THEN [ret |-> user, db |-> update_last_login(d, user.id, now)]
       ELSE [ret |-> None, db |-> d]

\* authenticate: what it returns and the store it leaves.
authenticate(d, username, password, now) ==
    LET user == get_by_username(d, username)
    IN IF user # None /\ user.password_hash = password /\ user.is_active
       THEN [ret |-> user, db |-> update_last_login(d, user.id, now)]
       ELSE [ret |-> None, db |-> d]

\* create: the id of the new user; a failure is logged and raised again.
UserRepository_create_run(d, user, accepted) ==
    LET c == execute_insert_run(d, InsertUser(d, user), accepted)
    IN [ret |-> IF c.raised THEN Raised ELSE [id |-> c.committed.user_seq],
        db |-> c.committed, conn |-> c]

\* QuizResultRepository.create: the INSERT of a result for user_id, an
\* optional reference into users; the id of the new row, or the failure
\* raised again.
QuizResultRepository_create_run(d, user_id, score, total, accepted) ==
    LET known == user_id = <<>>
                   \/ \E i \in 1..Len(d.user_rows) :
                         d.user_rows[i].id = user_id[1]
        c == execute_insert_run(
                 d, IF known THEN InsertResult(d, score, total) ELSE Fail(d),
                 accepted)
    IN [ret |-> IF c.raised THEN Raised
                ELSE [id |-> Len(c.committed.quiz_results)],
        db |-> c.committed, conn |-> c]

\* The latest second a login was recorded in.
RECURSIVE LatestLogin(_)
LatestLogin(rows) ==
    IF rows = <<>> THEN 0
    ELSE LET rest == LatestLogin(Tail(rows))
             mine == IF rows[1].last_login = <<>> THEN 0
                     ELSE rows[1].last_login[1]
         IN IF mine > rest THEN mine ELSE rest

----------------------------------------------------------------------------
(* InputValidator and AdminService.  What the administrator types is text  *)
(* character by character.  The messages, Vietnamese sentences in the      *)
(* source, are written by a name each.                                     *)

MinPromptLen == 5

MaxPromptLen == 500

MaxOptionLen == 200

MaxCategoryLen == 50

MaxSanitizedLen == 1000

\* The first option, in A, B, C order, that is empty or blank, 0 if none.
FirstEmptyOption(options) ==
    LET empty == {i \in 1..Len(options) : Len(Strip(options[i])) < 1}
    IN IF empty = {} THEN 0
       ELSE CHOOSE i \in empty : \A j \in empty : i <= j

FirstLongOption(options) ==
    LET long == {i \in 1..Len(options) :
                    Len(Strip(options[i])) > MaxOptionLen}
    IN IF long = {} THEN 0
       ELSE CHOOSE i \in long : \A j \in long : i <= j

\* validate_question: the message of the first test that fails, "" when
\* all pass.  The difficulty is not among its arguments.
validate_question(prompt, options, answer, category) ==
    IF Len(Strip(prompt)) < MinPromptLen THEN "prompt too short"
    ELSE IF Len(Strip(prompt)) > MaxPromptLen THEN "prompt too long"
    ELSE IF Len(options) # 3 THEN "not three options"
    ELSE IF FirstEmptyOption(options) # 0
            /\ (FirstLongOption(options) = 0
                  \/ FirstEmptyOption(options) < FirstLongOption(options))
         THEN "option empty"
    ELSE IF FirstLongOption(options) # 0 THEN "option too long"
    ELSE IF answer \notin {"A", "B", "C"} THEN "answer not A, B or C"
    ELSE IF Len(Strip(category)) > MaxCategoryLen THEN "category too long"
    ELSE ""

\* re.sub(r'<[^>]+>', '', text): from the left, each '<' that is followed
\* by at least one character other than '>' and then by a '>' goes, with
\* everything up to that '>'.
RECURSIVE RemoveTags(_)
RemoveTags(text) ==
    LET opens == {i \in 1..(Len(text) - 2) :
                     /\ text[i] = "<"
                     /\ text[i + 1] # ">"
                     /\ \E j \in (i + 2)..Len(text) : text[j] = ">"}
    IN IF opens = {} THEN text
       ELSE LET i == CHOOSE k \in opens : \A m \in opens : k <= m
                j == CHOOSE k \in (i + 2)..Len(text) :
                        /\ text[k] = ">"
                        /\ \A m \in (i + 2)..(k - 1) : text[m] # ">"
            IN SubSeq(text, 1, i - 1)
                 \o RemoveTags(SubSeq(text, j + 1, Len(text)))

\* ' '.join(text.split()): no blank at either end, one between words.
RECURSIVE OneBlank(_)
OneBlank(text) ==
    IF Len(text) <= 1 THEN text
    ELSE IF text[1] = " " /\ text[2] = " " THEN OneBlank(Tail(text))
    ELSE <<text[1]>> \o OneBlank(Tail(text))

\* sanitize_input.  Its second substitution, of <script ...</script>,
\* finds nothing: the first one has taken every '<' that a '>' follows.
sanitize_input(text) ==
    LET words == OneBlank(Strip(RemoveTags(text)))
    IN Strip(IF Len(words) > MaxSanitizedLen
             THEN SubSeq(words, 1, MaxSanitizedLen) ELSE words)

\* The Question create_question and update_question build from what they
\* were given: sanitized prompt, options and category, General for no
\* category, the answer, difficulty and tags as they came.
Sanitized(in) ==
    LET category == sanitize_input(in.category)
    IN [prompt |-> sanitize_input(in.prompt),
        option_a |-> sanitize_input(in.options[1]),
        option_b |-> sanitize_input(in.options[2]),
        option_c |-> sanitize_input(in.options[3]),
        answer |-> in.answer,
        category |-> IF category = <<>> THEN <<"General">> ELSE category,
        difficulty |-> in.difficulty,
        tags |-> in.tags]

\* A service call's outcome: the tuple it returns (the id of the new
\* question last, None where there is none), the store it leaves and the
\* connections its writes ran on.
Outcome(success, message, question_id, d, conns) ==
    [ret |-> [success |-> success, message |-> message,
              question_id |-> question_id],
     db |-> d, conns |-> conns]

\* create_question
create_question(d, in, now, accepted) ==
    LET error_msg == validate_question(in.prompt, in.options, in.answer,
                                       in.category)
    IN IF error_msg # "" THEN Outcome(FALSE, error_msg, None, d, <<>>)
       ELSE LET r == QuestionRepository_create_run(d, Sanitized(in), now,
                                                   accepted)
            IN IF r.ret = Raised
               THEN Outcome(FALSE, "error creating question", None, r.db,
                            <<r.conn>>)
               ELSE Outcome(TRUE, "question created", r.ret, r.db,
                            <<r.conn>>)

\* update_question
update_question(d, question_id, in, accepted) ==
    LET error_msg == validate_question(in.prompt, in.options, in.answer,
                                       in.category)
    IN IF error_msg # "" THEN Outcome(FALSE, error_msg, None, d, <<>>)
       ELSE IF get_by_id(d, question_id) = None
       THEN Outcome(FALSE, "question not found", None, d, <<>>)
       ELSE LET r == QuestionRepository_update_run(
                         d, [id |-> question_id] @@ Sanitized(in), accepted)
            IN IF r.ret.success
               THEN Outcome(TRUE, "question updated", None, r.db, <<r.conn>>)
               ELSE Outcome(FALSE, "cannot update question", None, r.db,
                            <<r.conn>>)

\* delete_question
delete_question(d, question_id, accepted) ==
    IF get_by_id(d, question_id) = None
    THEN Outcome(FALSE, "question not found", None, d, <<>>)
    ELSE LET r == QuestionRepository_delete_run(d, question_id, accepted)
         IN IF r.ret.success
            THEN Outcome(TRUE, "question deleted", None, r.db, <<r.conn>>)
            ELSE Outcome(FALSE, "cannot delete question", None, r.db,
                         <<r.conn>>)

\* duplicate_question: a new question with "[Copy] " before the prompt
\* of the original.
duplicate_question(d, question_id, now, accepted) ==
    LET original == get_by_id(d, question_id)
    IN IF original = None
       THEN Outcome(FALSE, "original not found", None, d, <<>>)
       ELSE LET duplicate ==
                    [prompt |-> <<"[Copy] ">> \o original.prompt,
                     option_a |-> original.option_a,
                     option_b |-> original.option_b,
                     option_c |-> original.option_c,
                     answer |-> original.answer,
                     category |-> original.category,
                     difficulty |-> original.difficulty,
                     tags |-> original.tags]
                r == QuestionRepository_create_run(d, duplicate, now,
                                                   accepted)
            IN IF r.ret = Raised
               THEN Outcome(FALSE, "error duplicating question", None, r.db,
                            <<r.conn>>)
               ELSE Outcome(TRUE, "question duplicated", r.ret, r.db,
                            <<r.conn>>)

----------------------------------------------------------------------------
(* QuizService                                                             *)

Choices == {"A", "B", "C"}

\* Index i (0-based in the code) is correct iff an answer is recorded
\* there and equals the question's answer.
correct_results(qs, answers) ==
    [i \in 1..Len(qs) |-> i <= Len(answers) /\ answers[i] = qs[i]]

\* calculate_score counting the answered positions instead of the correct
\* ones.
calculate_score_answered(qs, answers) ==
    Cardinality({i \in 1..Len(qs) : i <= Len(answers) /\ answers[i] # ""})

calculate_score(qs, answers) ==
    Cardinality({i \in 1..Len(qs) : correct_results(qs, answers)[i]})

\* A call of calculate_score on the question keys and the answer list at
\* hand; the returned pair is kept in lastCall.ret.
QuizService_calculate_score ==
    /\ lastCall' = Call("calculate_score", 0,
                        [score |-> calculate_score(questions, user_answers),
                         correct_results |->
                             correct_results(questions, user_answers)],
                        <<>>)
    /\ UNCHANGED db
    /\ UNCHANGED sessionVars

\* QuizResultRepository.create through save_quiz_result: the INSERT needs
\* the quiz_results table and its foreign-key parent; save_quiz_result
\* swallows the failure.  user_id is always None; time_taken is wall-clock
\* time and is left out of the row.
save_quiz_result(d, score, total) ==
    IF {"quiz_results", "users"} \subseteq d.tables
    THEN [d EXCEPT !.quiz_results =
              Append(@, [score |-> score, total_questions |-> total])]
    ELSE d

----------------------------------------------------------------------------
(* Python floats.  `/` on two ints and `*` on floats give the IEEE 754      *)
(* double nearest to the exact result, ties to the even significand.  A    *)
(* float that is zero or positive is modelled exactly: sig is its          *)
(* significand as Significand binary digits, most significant first, and   *)
(* exp the power of two the last digit stands for; zero has no digits.     *)

Significand == 53

Zero == [sig |-> <<>>, exp |-> 0]

\* Binary digits of a natural number, most significant first.
RECURSIVE Bits(_)
Bits(n) == IF n = 0 THEN <<>> ELSE Append(Bits(n \div 2), n % 2)

Zeros(n) == [i \in 1..n |-> 0]

\* A digit string plus one: the last 0 becomes 1 and the ones after it 0.
Increment(bits) ==
    LET zeroAt == {i \in 1..Len(bits) : bits[i] = 0}
    IN IF zeroAt = {} THEN <<1>> \o Zeros(Len(bits))
       ELSE LET p == CHOOSE i \in zeroAt : \A j \in zeroAt : j <= i
            IN [i \in 1..Len(bits) |->
                   IF i < p THEN bits[i] ELSE IF i = p THEN 1 ELSE 0]

\* The double nearest to the number whose digits (leading digit 1, last
\* digit standing for 2^exp) are followed by something non-zero iff sticky.
RoundNearestEven(bits, exp, sticky) ==
    IF Len(bits) <= Significand
    THEN [sig |-> bits \o Zeros(Significand - Len(bits)),
          exp |-> exp - (Significand - Len(bits))]
    ELSE LET kept == SubSeq(bits, 1, Significand)
             rest == SubSeq(bits, Significand + 1, Len(bits))
             more == sticky \/ \E i \in 2..Len(rest) : rest[i] = 1
             up == rest[1] = 1 /\ (more \/ kept[Significand] = 1)
             e == exp + Len(rest)
             inc == Increment(kept)
         IN IF ~up THEN [sig |-> kept, exp |-> e]
            ELSE IF Len(inc) > Significand
                 THEN [sig |-> SubSeq(inc, 1, Significand), exp |-> e + 1]
                 ELSE [sig |-> inc, exp |-> e]

\* Long division: the next k binary digits of r / t (r < t) and what is
\* left over; the digits are produced half by half.
RECURSIVE DivDigits(_, _, _)
DivDigits(r, t, k) ==
    IF k = 0 THEN [digits |-> <<>>, rem |-> r]
    ELSE IF k = 1
    THEN LET d == IF 2 * r >= t THEN 1 ELSE 0
         IN [digits |-> <<d>>, rem |-> 2 * r - d * t]
    ELSE LET first == DivDigits(r, t, k \div 2)
             second == DivDigits(first.rem, t, k - k \div 2)
         IN [digits |-> first.digits \o second.digits, rem |-> second.rem]

\* The least k with n * 2^k >= t.
RECURSIVE ShiftTo(_, _)
ShiftTo(n, t) == IF n >= t THEN 0 ELSE 1 + ShiftTo(2 * n, t)

\* n / t on ints with 0 <= n < 2 * t.
float_div(n, t) ==
    IF n = 0 THEN Zero
    ELSE LET k == ShiftTo(n, t)
             q == DivDigits(n * 2^k - t, t, Significand)
         IN RoundNearestEven(<<1>> \o q.digits, 0 - k - Significand,
                             q.rem # 0)

Reverse(s) == [i \in 1..Len(s) |-> s[Len(s) + 1 - i]]

\* (digit string) * c + carry, c a small natural number, on digits given
\* least significant first: as many digits as the string has, and what is
\* carried out of them; the string is multiplied half by half.
RECURSIVE TimesSmall(_, _, _)
TimesSmall(bits, c, carry) ==
    IF bits = <<>> THEN [digits |-> <<>>, carry |-> carry]
    ELSE IF Len(bits) = 1
    THEN [digits |-> <<(bits[1] * c + carry) % 2>>,
          carry |-> (bits[1] * c + carry) \div 2]
    ELSE LET h == Len(bits) \div 2
             low == TimesSmall(SubSeq(bits, 1, h), c, carry)
             high == TimesSmall(SubSeq(bits, h + 1, Len(bits)), c,
                                low.carry)
         IN [digits |-> low.digits \o high.digits, carry |-> high.carry]

\* x * c for a float x and a small positive whole number c.
float_mul(x, c) ==
    IF x.sig = <<>> THEN Zero
    ELSE LET product == TimesSmall(Reverse(x.sig), c, 0)
         IN RoundNearestEven(Bits(product.carry) \o Reverse(product.digits),
                             x.exp, FALSE)

\* x > c for a float x and a positive whole number c (mixed comparisons
\* are exact in Python).
float_gt(x, c) ==
    IF x.sig = <<>> THEN FALSE
    ELSE LET cb == Bits(c) \o Zeros(Significand - Len(Bits(c)))
             top == x.exp + Significand
         IN IF top # Len(Bits(c)) THEN top > Len(Bits(c))
            ELSE \E i \in 1..Significand :
                     /\ x.sig[i] > cb[i]
                     /\ \A j \in 1..(i - 1) : x.sig[j] = cb[j]

\* x >= c for a float x and a positive whole number c.
float_ge(x, c) ==
    IF x.sig = <<>> THEN FALSE
    ELSE LET cb == Bits(c) \o Zeros(Significand - Len(Bits(c)))
             top == x.exp + Significand
         IN IF top # Len(Bits(c)) THEN top > Len(Bits(c))
            ELSE ~ \E i \in 1..Significand :
                       /\ x.sig[i] < cb[i]
                       /\ \A j \in 1..(i - 1) : x.sig[j] = cb[j]

----------------------------------------------------------------------------
(* Grades: QuizResult (models/user.py) and the report of QuizService       *)

\* The if/elif chain both grade computations share.
letter(percentage) ==
    IF float_ge(percentage, 90) THEN "A"
    ELSE IF float_ge(percentage, 80) THEN "B"
    ELSE IF float_ge(percentage, 70) THEN "C"
    ELSE IF float_ge(percentage, 60) THEN "D"
    ELSE "F"

QuizResult_percentage(score, total_questions) ==
    IF total_questions = 0 THEN Zero
    ELSE float_mul(float_div(score, total_questions), 100)

QuizResult_grade(score, total_questions) ==
    letter(QuizResult_percentage(score, total_questions))

\* sum(correct_results)
Count(results) == Cardinality({i \in 1..Len(results) : results[i]})

\* The score, percentage and grade entries of the report.
generate_quiz_report(total_questions, results) ==
    LET score == Count(results)
        percentage == IF total_questions > 0
                      THEN float_mul(float_div(score, total_questions), 100)
                      ELSE Zero
    IN [score |-> score, total_questions |-> total_questions,
        percentage |-> percentage, grade |-> letter(percentage)]

\* The stored result the grade is asked of.
Row == db.quiz_results[1]

\* The percentage and grade properties are read off the stored result.
QuizResult_grade_read ==
    /\ lastCall' = Call("QuizResult.grade", 0,
                        [percentage |->
                             QuizResult_percentage(Row.score,
                                                   Row.total_questions),
                         grade |-> QuizResult_grade(Row.score,
                                                    Row.total_questions)],
                        <<>>)
    /\ UNCHANGED db
    /\ UNCHANGED sessionVars

\* generate_quiz_report is called for a quiz with the stored result's
\* number of questions and any correct_results list with its score.
QuizService_generate_quiz_report ==
    /\ \E results \in [1..Row.total_questions -> BOOLEAN] :
          /\ Count(results) = Row.score
          /\ lastCall' = Call("generate_quiz_report", 0,
                              generate_quiz_report(Row.total_questions,
                                                   results),
                              <<>>)
    /\ UNCHANGED db
    /\ UNCHANGED sessionVars

----------------------------------------------------------------------------
(* QuizWindow.  The Tk main thread runs one handler at a time; a handler   *)
(* that opens a modal dialog waits in it (mainPc).  Each firing of the     *)
(* threading.Timer runs _update_timer on a thread of its own, statement    *)
(* by statement (tickPc), interleaved with the handlers.                   *)
(*   timer  : state of the Timer object self.timer refers to               *)
(*   ticks  : number of one-second timer firings so far                    *)

\* Timer.cancel() stops a timer that has not fired yet and nothing else.
cancel(t) == IF t = "pending" THEN "cancelled" ELSE t

RECURSIVE Blanks(_)
Blanks(n) == IF n <= 0 THEN <<>> ELSE Append(Blanks(n - 1), "")

\* while len(user_answers) < n: user_answers.append("")
PadTo(answers, n) == answers \o Blanks(n - Len(answers))

\* _save_current_answer appending instead of storing at the index.
_save_current_answer_append(answers, index, choice) ==
    IF Len(answers) <= index
    THEN [PadTo(answers, index + 1) EXCEPT ![index + 1] = choice]
    ELSE Append(answers, choice)

_save_current_answer(answers, index, choice) ==
    [PadTo(answers, index + 1) EXCEPT ![index + 1] = choice]

\* The selection _load_question leaves in answer_var for question index.
loaded_answer(answers, index) ==
    IF index < Len(answers) THEN answers[index + 1] ELSE ""

\* Lines 429-452 of _finish_quiz, run by whichever thread calls it, on the
\* answers recorded at that moment.
_finish_quiz(answers) ==
    LET padded == PadTo(answers, Len(questions))
    IN /\ quiz_completed' = TRUE
       /\ timer' = cancel(timer)
       /\ user_answers' = padded
       /\ db' = save_quiz_result(db, calculate_score(questions, padded),
                                 Len(questions))

TickDialogUp == tickPc \in {"warn_auto", "warn_freeze", "info"}

\* The quiz window takes user input: it exists and no modal dialog is up.
AcceptsInput == windowOpen /\ mainPc = "idle" /\ ~TickDialogUp

select_option(c) ==
    /\ AcceptsInput
    /\ answer_var' = c
    /\ UNCHANGED <<db, lastCall, questions, show_timer, auto_submit,
                   total_time_limit, current_question_index, user_answers,
                   time_remaining, quiz_completed, timer, tickPc, mainPc,
                   windowOpen, ticks>>

\* _next_question without its first statement (nothing saved).
_next_question_nosave ==
    /\ AcceptsInput
    /\ IF current_question_index = Len(questions) - 1
       THEN /\ _finish_quiz(user_answers)
            /\ mainPc' = "info"
            /\ UNCHANGED <<current_question_index, answer_var>>
       ELSE /\ current_question_index' = current_question_index + 1
            /\ answer_var' = loaded_answer(user_answers,
                                           current_question_index')
            /\ UNCHANGED <<user_answers, db, quiz_completed, timer, mainPc>>
    /\ UNCHANGED <<lastCall, questions, show_timer, auto_submit,
                   total_time_limit, time_remaining, tickPc, windowOpen,
                   ticks>>

_next_question ==
    /\ AcceptsInput
    /\ IF current_question_index = Len(questions) - 1
       THEN /\ _finish_quiz(_save_current_answer(user_answers,
                              current_question_index, answer_var))
            /\ mainPc' = "info"
            /\ UNCHANGED <<current_question_index, answer_var>>
       ELSE /\ user_answers' = _save_current_answer(user_answers,
                                   current_question_index, answer_var)
            /\ current_question_index' = current_question_index + 1
            /\ answer_var' = loaded_answer(user_answers',
                                           current_question_index')
            /\ UNCHANGED <<db, quiz_completed, timer, mainPc>>
    /\ UNCHANGED <<lastCall, questions, show_timer, auto_submit,
                   total_time_limit, time_remaining, tickPc, windowOpen,
                   ticks>>

\* _previous_question saving before it tests the index.
_previous_question_saves_first ==
    /\ AcceptsInput
    /\ user_answers' = _save_current_answer(user_answers,
                                            current_question_index, answer_var)
    /\ IF current_question_index > 0
       THEN /\ current_question_index' = current_question_index - 1
            /\ answer_var' = loaded_answer(user_answers',
                                           current_question_index')
       ELSE UNCHANGED <<current_question_index, answer_var>>
    /\ UNCHANGED <<db, lastCall, questions, show_timer, auto_submit,
                   total_time_limit, time_remaining, quiz_completed, timer,
                   tickPc, mainPc, windowOpen, ticks>>

_previous_question ==
    /\ AcceptsInput
    /\ IF current_question_index > 0
       THEN /\ user_answers' = _save_current_answer(user_answers,
                                   current_question_index, answer_var)
            /\ current_question_index' = current_question_index - 1
            /\ answer_var' = loaded_answer(user_answers',
                                           current_question_index')
       ELSE UNCHANGED <<user_answers, current_question_index, answer_var>>
    /\ UNCHANGED <<db, lastCall, questions, show_timer, auto_submit,
                   total_time_limit, time_remaining, quiz_completed, timer,
                   tickPc, mainPc, windowOpen, ticks>>

\* The completion message of a _finish_quiz run by a handler is dismissed:
\* the window is destroyed.
main_info_closed ==
    /\ mainPc = "info" /\ ~TickDialogUp
    /\ mainPc' = "idle"
    /\ windowOpen' = FALSE
    /\ UNCHANGED <<db, lastCall, questions, show_timer, auto_submit,
                   total_time_limit, current_question_index, user_answers,
                   answer_var, time_remaining, quiz_completed, timer,
                   tickPc, ticks>>

\* _on_window_close up to the confirmation dialog.
_on_window_close ==
    /\ AcceptsInput
    /\ IF quiz_completed
       THEN windowOpen' = FALSE /\ UNCHANGED mainPc
       ELSE mainPc' = "confirm" /\ UNCHANGED windowOpen
    /\ UNCHANGED <<db, lastCall, questions, show_timer, auto_submit,
                   total_time_limit, current_question_index, user_answers,
                   answer_var, time_remaining, quiz_completed, timer,
                   tickPc, ticks>>

\* The user answers the confirmation dialog of _on_window_close.
confirm_exit(yes) ==
    /\ mainPc = "confirm" /\ ~TickDialogUp
    /\ IF yes
       THEN /\ timer' = cancel(timer)
            /\ windowOpen' = FALSE
            /\ mainPc' = "abandoned"
       ELSE /\ mainPc' = "idle"
            /\ UNCHANGED <<timer, windowOpen>>
    /\ UNCHANGED <<db, lastCall, questions, show_timer, auto_submit,
                   total_time_limit, current_question_index, user_answers,
                   answer_var, time_remaining, quiz_completed, tickPc, ticks>>

\* Timer.run: one second has passed and the timer was not cancelled.
timer_fires ==
    /\ timer = "pending" /\ tickPc = "idle"
    /\ timer' = "fired"
    /\ tickPc' = "check"
    /\ ticks' = ticks + 1
    /\ UNCHANGED <<db, lastCall, questions, show_timer, auto_submit,
                   total_time_limit, current_question_index, user_answers,
                   answer_var, time_remaining, quiz_completed, mainPc,
                   windowOpen>>

\* _update_timer, line 307
tick_check ==
    /\ tickPc = "check"
    /\ tickPc' = IF quiz_completed \/ ~show_timer THEN "idle" ELSE "display"
    /\ UNCHANGED <<db, lastCall, questions, show_timer, auto_submit,
                   total_time_limit, current_question_index, user_answers,
                   answer_var, time_remaining, quiz_completed, timer, mainPc,
                   windowOpen, ticks>>

\* _update_timer, line 311: configuring the label of a destroyed window
\* raises, which ends the timer thread.
tick_display ==
    /\ tickPc = "display"
    /\ tickPc' = IF windowOpen THEN "branch" ELSE "idle"
    /\ UNCHANGED <<db, lastCall, questions, show_timer, auto_submit,
                   total_time_limit, current_question_index, user_answers,
                   answer_var, time_remaining, quiz_completed, timer, mainPc,
                   windowOpen, ticks>>

\* _update_timer testing time_remaining < 0 instead of <= 0.
tick_branch_strict ==
    /\ tickPc = "branch"
    /\ IF time_remaining < 0
       THEN /\ tickPc' = IF auto_submit THEN "warn_auto" ELSE "warn_freeze"
            /\ UNCHANGED <<time_remaining, timer>>
       ELSE /\ time_remaining' = time_remaining - 1
            /\ timer' = "pending"
            /\ tickPc' = "idle"
    /\ UNCHANGED <<db, lastCall, questions, show_timer, auto_submit,
                   total_time_limit, current_question_index, user_answers,
                   answer_var, quiz_completed, mainPc, windowOpen, ticks>>

\* _update_timer, lines 313-332 up to the message box or the next Timer.
tick_branch ==
    /\ tickPc = "branch"
    /\ IF time_remaining <= 0
       THEN /\ tickPc' = IF auto_submit THEN "warn_auto" ELSE "warn_freeze"
            /\ UNCHANGED <<time_remaining, timer>>
       ELSE /\ time_remaining' = time_remaining - 1
            /\ timer' = "pending"
            /\ tickPc' = "idle"
    /\ UNCHANGED <<db, lastCall, questions, show_timer, auto_submit,
                   total_time_limit, current_question_index, user_answers,
                   answer_var, quiz_completed, mainPc, windowOpen, ticks>>

\* The auto-submit saving the displayed selection before it finishes.
tick_auto_submit_saves_selection ==
    /\ tickPc = "warn_auto"
    /\ _finish_quiz(_save_current_answer(user_answers,
                                         current_question_index, answer_var))
    /\ tickPc' = "info"
    /\ UNCHANGED <<lastCall, questions, show_timer, auto_submit,
                   total_time_limit, current_question_index, answer_var,
                   time_remaining, mainPc, windowOpen, ticks>>

\* The time-out warning is dismissed and the timer thread runs _finish_quiz
\* up to its completion message.
tick_auto_submit ==
    /\ tickPc = "warn_auto"
    /\ _finish_quiz(user_answers)
    /\ tickPc' = "info"
    /\ UNCHANGED <<lastCall, questions, show_timer, auto_submit,
                   total_time_limit, current_question_index, answer_var,
                   time_remaining, mainPc, windowOpen, ticks>>

\* The completion message of the timer thread's _finish_quiz is dismissed.
tick_info_closed ==
    /\ tickPc = "info"
    /\ tickPc' = "idle"
    /\ windowOpen' = FALSE
    /\ UNCHANGED <<db, lastCall, questions, show_timer, auto_submit,
                   total_time_limit, current_question_index, user_answers,
                   answer_var, time_remaining, quiz_completed, timer, mainPc,
                   ticks>>

\* The time-out warning is dismissed with auto-submit off (line 326).
tick_freeze ==
    /\ tickPc = "warn_freeze"
    /\ quiz_completed' = TRUE
    /\ tickPc' = "idle"
    /\ UNCHANGED <<db, lastCall, questions, show_timer, auto_submit,
                   total_time_limit, current_question_index, user_answers,
                   answer_var, time_remaining, timer, mainPc, windowOpen,
                   ticks>>

----------------------------------------------------------------------------
(* Bounds and specifications                                               *)

MaxQuestions == 2

MaxTime == 5

\* Answer keys of the pre-selected questions, drawn from the seed questions:
\* the answers of the first three (B, A, B) and of the last three (C, A, B),
\* repeated when more than three questions are asked.
KeySeedHead(n) == [i \in 1..n |-> <<"B", "A", "B">>[((i - 1) % 3) + 1]]

KeySeedTail(n) == [i \in 1..n |-> <<"C", "A", "B">>[((i - 1) % 3) + 1]]

\* No quiz window exists.
NoSession ==
    /\ questions = <<>>
    /\ show_timer = FALSE
    /\ auto_submit = FALSE
    /\ total_time_limit = 0
    /\ current_question_index = 0
    /\ user_answers = <<>>
    /\ answer_var = ""
    /\ time_remaining = 0
    /\ quiz_completed = FALSE
    /\ timer = "none"
    /\ tickPc = "idle"
    /\ mainPc = "idle"
    /\ windowOpen = FALSE
    /\ ticks = 0

\* __init__ starting the timer whatever show_timer says.
QuizWindow_init_starts_timer ==
    /\ \E n \in 1..MaxQuestions : questions \in {KeySeedHead(n), KeySeedTail(n)}
    /\ show_timer \in BOOLEAN
    /\ auto_submit \in BOOLEAN
    /\ total_time_limit \in 1..MaxTime
    /\ current_question_index = 0
    /\ user_answers = <<>>
    /\ answer_var = ""
    /\ time_remaining = IF show_timer THEN total_time_limit - 1
                        ELSE total_time_limit
    /\ quiz_completed = FALSE
    /\ timer = "pending"
    /\ tickPc = "idle"
    /\ mainPc = "idle"
    /\ windowOpen = TRUE
    /\ ticks = 0

\* QuizWindow.__init__: with the timer shown, _start_timer has already run
\* _update_timer once on the main thread (one second taken off, first Timer
\* started).  The settings dialog only stores budgets of a minute or more,
\* so the budget is positive.
QuizWindow_init ==
    /\ \E n \in 1..MaxQuestions : questions \in {KeySeedHead(n), KeySeedTail(n)}
    /\ show_timer \in BOOLEAN
    /\ auto_submit \in BOOLEAN
    /\ total_time_limit \in 1..MaxTime
    /\ current_question_index = 0
    /\ user_answers = <<>>
    /\ answer_var = ""
    /\ time_remaining = IF show_timer THEN total_time_limit - 1
                        ELSE total_time_limit
    /\ quiz_completed = FALSE
    /\ timer = IF show_timer THEN "pending" ELSE "none"
    /\ tickPc = "idle"
    /\ mainPc = "idle"
    /\ windowOpen = TRUE
    /\ ticks = 0

Init == db = FreshStore /\ lastCall = NoCall /\ NoSession

Next ==
    \/ migrate
    \/ reset_database
    \/ DatabaseManager_init
    \/ \E v \in Versions : apply_migration(v)
    \/ \E v \in Versions : rollback_migration(v)

\* The migration engine driven on the store of a started application.
Spec == Init /\ [][Next]_vars

InitQuiz == db = FreshStore /\ lastCall = NoCall /\ QuizWindow_init

NextQuiz ==
    \/ \E c \in Choices : select_option(c)
    \/ _next_question
    \/ _previous_question
    \/ main_info_closed
    \/ _on_window_close
    \/ \E yes \in BOOLEAN : confirm_exit(yes)
    \/ timer_fires
    \/ tick_check
    \/ tick_display
    \/ tick_branch
    \/ tick_auto_submit
    \/ tick_info_closed
    \/ tick_freeze

\* One quiz session on a freshly initialised store.
SpecQuiz == InitQuiz /\ [][NextQuiz]_vars

\* save_quiz_result on a store that takes the INSERT or fails it (sqlite3
\* raising in execute or commit: the file locked by another process, the
\* disk full).  QuizResultRepository.create raises, save_quiz_result
\* catches and returns whether a row was stored.
save_quiz_result_run(d, score, total, accepted) ==
    LET r == QuizResultRepository_create_run(d, <<>>, score, total, accepted)
    IN [ret |-> [success |-> r.ret # Raised], db |-> r.db]

\* Lines 429-463 of _finish_quiz, run by the handler thread ("main") or the
\* timer thread ("tick"), up to the dialog it ends in.  The value
\* save_quiz_result returns is not read and nothing before the message box
\* raises on answers padded to the length of the questions, so the dialog
\* is the completion message.  lastCall keeps what save_quiz_result
\* returned.
_finish_quiz_run(by, answers, accepted) ==
    LET padded == PadTo(answers, Len(questions))
        r == save_quiz_result_run(db, calculate_score(questions, padded),
                                  Len(questions), accepted)
    IN /\ quiz_completed' = TRUE
       /\ timer' = cancel(timer)
       /\ user_answers' = padded
       /\ db' = r.db
       /\ lastCall' = Call("_finish_quiz", [by |-> by], r.ret, <<>>)
       /\ IF by = "main"
          THEN mainPc' = "info" /\ UNCHANGED tickPc
          ELSE tickPc' = "info" /\ UNCHANGED mainPc

\* _next_question, the store taking or failing the INSERT as order allows.
_next_question_run(order) ==
    /\ AcceptsInput
    /\ IF current_question_index = Len(questions) - 1
       THEN /\ \E accepted \in order :
                  _finish_quiz_run("main",
                      _save_current_answer(user_answers,
                          current_question_index, answer_var), accepted)
            /\ UNCHANGED <<current_question_index, answer_var>>
       ELSE /\ user_answers' = _save_current_answer(user_answers,
                                   current_question_index, answer_var)
            /\ current_question_index' = current_question_index + 1
            /\ answer_var' = loaded_answer(user_answers',
                                           current_question_index')
            /\ UNCHANGED <<db, lastCall, quiz_completed, timer, mainPc,
                           tickPc>>
    /\ UNCHANGED <<questions, show_timer, auto_submit, total_time_limit,
                   time_remaining, windowOpen, ticks>>

\* The time-out warning is dismissed and the timer thread runs
\* _finish_quiz, the store taking or failing the INSERT as order allows.
tick_auto_submit_run(order) ==
    /\ tickPc = "warn_auto"
    /\ \E accepted \in order :
          _finish_quiz_run("tick", user_answers, accepted)
    /\ UNCHANGED <<questions, show_timer, auto_submit, total_time_limit,
                   current_question_index, answer_var, time_remaining,
                   windowOpen, ticks>>

NextFinish ==
    \/ \E c \in Choices : select_option(c)
    \/ _next_question_run(BOOLEAN)
    \/ _previous_question
    \/ main_info_closed
    \/ _on_window_close
    \/ \E yes \in BOOLEAN : confirm_exit(yes)
    \/ timer_fires
    \/ tick_check
    \/ tick_display
    \/ tick_branch
    \/ tick_auto_submit_run(BOOLEAN)
    \/ tick_info_closed
    \/ tick_freeze

\* One quiz session on a store that may fail the INSERT of the result.
SpecFinish == InitQuiz /\ [][NextFinish]_vars

\* Longest question list and answer list handed to calculate_score.
MaxScored == 3

SeqsUpTo(S, n) == UNION {[1..k -> S] : k \in 0..n}

\* calculate_score as a function of its arguments: any list of question
\* keys (the questions table only admits A, B, C as answer) against any
\* list of answers, blank or an option, shorter or longer than the
\* question list.
InitScore ==
    /\ db = FreshStore
    /\ lastCall = NoCall
    /\ questions \in SeqsUpTo(Choices, MaxScored)
    /\ user_answers \in SeqsUpTo(Choices \cup {""}, MaxScored)
    /\ show_timer = FALSE
    /\ auto_submit = FALSE
    /\ total_time_limit = 0
    /\ current_question_index = 0
    /\ answer_var = ""
    /\ time_remaining = 0
    /\ quiz_completed = FALSE
    /\ timer = "none"
    /\ tickPc = "idle"
    /\ mainPc = "idle"
    /\ windowOpen = FALSE
    /\ ticks = 0

NextScore == QuizService_calculate_score

SpecScore == InitScore /\ [][NextScore]_vars

\* Largest number of questions of a graded result.
MaxTotal == 10

\* One stored result with any score between 0 and its number of questions.
InitGrade ==
    /\ \E t \in 0..MaxTotal : \E s \in 0..t :
          db = [FreshStore EXCEPT
                   !.quiz_results = <<[score |-> s, total_questions |-> t]>>]
    /\ lastCall = NoCall
    /\ NoSession

NextGrade ==
    \/ QuizResult_grade_read
    \/ QuizService_generate_quiz_report

SpecGrade == InitGrade /\ [][NextGrade]_vars

NextConn ==
    \/ execute_insert
    \/ execute_update
    \/ migrate
    \/ DatabaseManager_init
    \/ \E v \in Versions : rollback_migration(v)

\* Writes through the scoped connection on a store whose tables come and
\* go with the migration engine.
SpecConn == Init /\ [][NextConn]_vars

\* Most tags of a question, most characters of a tag.
MaxTags == 2

MaxTagLen == 2

\* The characters tags are made of: a letter, the delimiter, a blank.
TagChars == {"a", ",", " "}

\* Valid questions: prompt and options not empty, answer A, B or C,
\* difficulty Easy, Medium or Hard, any list of tags.
ValidQuestions ==
    [prompt : {<<"Is water wet?">>}, option_a : {<<"yes">>},
     option_b : {<<"no">>}, option_c : {<<"maybe">>}, answer : Choices,
     category : {<<"General">>},
     difficulty : {"Easy", "Medium", "Hard"},
     tags : SeqsUpTo(SeqsUpTo(TagChars, MaxTagLen), MaxTags)]

\* create(q), for q of qs, on a store the repository has not written to
\* yet; the store takes the commit when it is in good order.
QuestionRepository_create(qs, order) ==
    /\ db.question_seq <= SeedCount
    /\ \E q \in qs, now \in Clock(db), accepted \in order :
          LET r == QuestionRepository_create_run(db, q, now, accepted)
          IN /\ db' = r.db
             /\ lastCall' = Call("create", q, r.ret, <<r.conn>>)
    /\ UNCHANGED sessionVars

\* get_by_id of a sample question, of the id after the samples or of the
\* one after it.
QuestionRepository_get_by_id ==
    /\ \E id \in {1, SeedCount + 1, SeedCount + 2} :
          lastCall' = Call("get_by_id", id, get_by_id(db, id), <<>>)
    /\ UNCHANGED db
    /\ UNCHANGED sessionVars

InitRepo ==
    /\ db = WithQuestions(FreshStore, sample_questions, SeedCount)
    /\ lastCall = NoCall
    /\ NoSession

NextRepo ==
    \/ QuestionRepository_create(ValidQuestions, {TRUE})
    \/ QuestionRepository_get_by_id

\* A question is created through the repository and read back.
SpecRepo == InitRepo /\ [][NextRepo]_vars

----------------------------------------------------------------------------
(* Properties of the migration engine (checked under Spec)                 *)

SchemaOf(d) == <<d.tables, d.qcols, d.indexes>>

Applied(d) == get_applied_migrations(d)

PendingSet(d) == Versions \ Applied(d)

Front(s) == SubSeq(s, 1, Len(s) - 1)

Last(s) == s[Len(s)]

Ascending(s) == \A i, j \in 1..Len(s) : i < j => s[i] < s[j]

NoDuplicates(s) == \A i, j \in 1..Len(s) : i # j => s[i] # s[j]

\* The recorded versions are 001..k for some k, each recorded once.
AppliedIsPrefix(d) ==
    /\ NoDuplicates(d.schema_migrations)
    /\ \A v \in Applied(d) : \A w \in Versions : w < v => w \in Applied(d)

\* The schema reached by running up() of the given units in order.
RECURSIVE UpAll(_, _)
UpAll(d, units) ==
    IF units = <<>> THEN d ELSE UpAll(Up(Head(units), d).db, Tail(units))

\* C1: migrate() called twice in a row is idempotent: the second call finds
\* zero pending migrations, applies nothing and leaves the schema and the
\* schema_migrations records unchanged.
C1_MigrateTwiceIdempotent ==
    [][(lastCall.op = "migrate" /\ lastCall'.op = "migrate")
        => /\ get_pending_migrations(db) = <<>>
           /\ lastCall'.attempted = <<>>
           /\ db' = db]_vars

\* C2 (as claimed): in every reachable state the versions recorded in
\* schema_migrations form a prefix of the registered list 001..005, none
\* recorded twice.
C2_AppliedAlwaysPrefix == AppliedIsPrefix(db)

\* C2 (amended): no version is ever recorded twice; migrate(),
\* reset_database() and the start of DatabaseManager keep the recorded
\* versions a prefix of 001..005, and so do apply_migration of the lowest
\* unrecorded version and rollback_migration of the highest recorded one.
C2_PrefixKeptByEngine ==
    [][/\ NoDuplicates(db'.schema_migrations)
       /\ (/\ AppliedIsPrefix(db)
           /\ \/ lastCall'.op \in {"migrate", "reset_database",
                                   "DatabaseManager"}
              \/ /\ lastCall'.op = "apply_migration"
                 /\ \A w \in PendingSet(db) : lastCall'.arg <= w
              \/ /\ lastCall'.op = "rollback_migration"
                 /\ \A w \in Applied(db) : w <= lastCall'.arg)
          => AppliedIsPrefix(db')]_vars

\* C2 witness: migrate() has run from a proper prefix and recorded the rest.
C2_Witness ==
    /\ lastCall.op = "migrate"
    /\ lastCall.before.schema_migrations = <<1, 2, 3, 4>>
    /\ lastCall.attempted = <<5>>
    /\ lastCall.ret
    /\ Applied(db) = Versions

\* C3: migrate() applies the pending units in ascending version order
\* without skipping any; when a unit fails it leaves neither a schema
\* change nor a version record, no later unit is attempted, the units
\* applied earlier in the call stay recorded, and migrate() returns False
\* (True only when every pending unit was applied).  A failing
\* apply_migration leaves the store as it was.
C3_MigrateStopsAtFailure ==
    [][/\ lastCall'.op = "migrate" =>
            LET att == lastCall'.attempted
                done == IF lastCall'.ret THEN att ELSE Front(att)
            IN /\ Ascending(att)
               /\ RangeOf(att) \subseteq PendingSet(db)
               /\ \A v \in RangeOf(att) : \A w \in PendingSet(db) :
                      w < v => w \in RangeOf(att)
               /\ lastCall'.ret => RangeOf(att) = PendingSet(db)
               /\ ~lastCall'.ret =>
                      /\ att # <<>>
                      /\ Last(att) \notin Applied(db')
                      /\ PendingSet(db') # {}
               /\ Applied(db') = Applied(db) \cup RangeOf(done)
               /\ NoDuplicates(db'.schema_migrations)
               /\ SchemaOf(db') =
                      SchemaOf(UpAll(create_migrations_table(db), done))
       /\ (lastCall'.op = "apply_migration" /\ ~lastCall'.ret) => db' = db
      ]_vars

\* C3 witness: a migrate() that applied 001 and 002, failed at 003,
\* returned False and left 003..005 pending.
C3_Witness ==
    /\ lastCall.op = "migrate"
    /\ ~lastCall.ret
    /\ lastCall.attempted = <<1, 2, 3>>
    /\ db.schema_migrations = <<1, 2>>
    /\ get_pending_migrations(db) = <<3, 4, 5>>

\* C4: with 003 recorded, a successful rollback_migration(003) followed by
\* migrate() ends with the tags column present, 003 recorded again and
\* migrate() returning True.
C4_RevertThenMigrateRestores ==
    [][(/\ lastCall.op = "rollback_migration"
        /\ lastCall.arg = 3
        /\ lastCall.ret
        /\ 3 \in Applied(lastCall.before)
        /\ lastCall'.op = "migrate")
        => /\ "tags" \in db'.qcols
           /\ 3 \in Applied(db')
           /\ lastCall'.ret]_vars

\* C5: a successful apply_migration(u) followed by a successful
\* rollback_migration(u) leaves the schema as it was before the apply, with
\* u's version record removed.
C5_RollbackRestoresSchema ==
    [][(/\ lastCall.op = "apply_migration"
        /\ lastCall.ret
        /\ lastCall'.op = "rollback_migration"
        /\ lastCall'.arg = lastCall.arg
        /\ lastCall'.ret)
        => /\ SchemaOf(db') = SchemaOf(lastCall.before)
           /\ lastCall.arg \notin Applied(db')]_vars

----------------------------------------------------------------------------
(* Properties of the quiz session (checked under SpecQuiz)                 *)

\* A _finish_quiz has run and its completion message is showing.
FinishRan == mainPc = "info" \/ tickPc = "info"

\* C6: exactly one quiz_results record is persisted for a completed
\* session, never zero and never two, however next() on the last question,
\* the auto-submitting tick and the window-close handler interleave.
C6_ExactlyOneResult ==
    /\ Len(db.quiz_results) <= 1
    /\ FinishRan => Len(db.quiz_results) = 1

\* C7: once the session is completed or abandoned, no tick decrements
\* time_remaining, starts a further Timer or enters the auto-submit.
C7_NoTickAfterEnd ==
    [][(quiz_completed \/ mainPc = "abandoned")
        => /\ time_remaining' = time_remaining
           /\ ~(timer' = "pending" /\ timer # "pending")
           /\ ~(tickPc' = "warn_auto" /\ tickPc # "warn_auto")]_vars

\* C8: once the user has confirmed leaving a session for which nothing was
\* persisted, no quiz_results record is ever persisted for it.
C8_NoResultAfterAbandon ==
    [][(mainPc = "abandoned" /\ db.quiz_results = <<>>)
        => db'.quiz_results = <<>>]_vars

\* The score of the answers recorded so far, unanswered positions blank.
RecordedScore ==
    Cardinality({i \in 1..Len(questions) :
                    i <= Len(user_answers) /\ user_answers[i] # ""
                    /\ user_answers[i] = questions[i]})

Frozen ==
    /\ show_timer /\ ~auto_submit
    /\ quiz_completed
    /\ time_remaining <= 0
    /\ tickPc = "idle"
    /\ mainPc = "idle"
    /\ windowOpen

\* C10: when the countdown reaches zero with auto-submit off the timer
\* persists no result, and from then on next() and previous() change
\* neither the current index nor the recorded answers and cannot move the
\* session on to a persisted result.
C10_FrozenNoNavigation ==
    [][/\ (tickPc = "warn_freeze" /\ tickPc' # "warn_freeze")
            => db'.quiz_results = db.quiz_results
       /\ Frozen
            => /\ current_question_index' = current_question_index
               /\ user_answers' = user_answers
               /\ db'.quiz_results = db.quiz_results]_vars

----------------------------------------------------------------------------
(* Navigation inside a session (checked under SpecQuiz)                    *)

\* The score of a full answer list against the questions' keys.
ScoreOf(answers) ==
    Cardinality({k \in 1..Len(questions) :
                    k <= Len(answers) /\ answers[k] = questions[k]})

\* C11: next() on a session in progress over N questions first saves the
\* current selection at the current index; at index N-1 the session becomes
\* completed and is scored (the result is persisted) with the index left
\* alone, otherwise the index goes up by exactly 1 and the session stays in
\* progress; the index never exceeds N-1.
C11_NextSavesThenAdvancesOrCompletes ==
    [][/\ (_next_question /\ ~quiz_completed) =>
            LET i == current_question_index
                N == Len(questions)
            IN /\ Len(user_answers') >= i + 1
               /\ user_answers'[i + 1] = answer_var
               /\ IF i = N - 1
                  THEN /\ quiz_completed'
                       /\ current_question_index' = i
                       /\ db'.quiz_results =
                              Append(db.quiz_results,
                                     [score |-> ScoreOf(user_answers'),
                                      total_questions |-> N])
                  ELSE /\ current_question_index' = i + 1
                       /\ ~quiz_completed'
                       /\ db' = db
       /\ current_question_index' <= Len(questions') - 1
      ]_vars

\* C11 witness: over two questions next() has moved from the first question
\* to the second and then completed the session with both answers right.
C11_Witness ==
    /\ Len(questions) = 2
    /\ current_question_index = 1
    /\ mainPc = "info"
    /\ quiz_completed
    /\ user_answers = questions
    /\ db.quiz_results = <<[score |-> 2, total_questions |-> 2]>>

\* C12: previous() saves the current selection and takes exactly 1 off the
\* index only when the index is above 0; at index 0 it changes neither the
\* index nor the recorded answers; the index never goes below 0.
C12_PreviousOnlyAboveZero ==
    [][/\ _previous_question =>
            LET i == current_question_index
            IN IF i > 0
               THEN /\ Len(user_answers') >= i + 1
                    /\ user_answers'[i + 1] = answer_var
                    /\ current_question_index' = i - 1
               ELSE /\ current_question_index' = i
                    /\ user_answers' = user_answers
       /\ current_question_index' >= 0
      ]_vars

\* C12 witness: previous() has gone back from the second question to the
\* first, leaving the selection made at the second recorded there.
C12_Witness ==
    /\ Len(questions) = 2
    /\ current_question_index = 0
    /\ ~quiz_completed
    /\ Len(user_answers) = 2
    /\ user_answers[2] = "C"

\* C13: the option selected at question i is stored at position i when the
\* user leaves i with next() or previous(); a question the user comes to
\* shows the option stored for it; no step changes the stored answer of an
\* index other than the current one, and the list only grows, up to N
\* entries.
C13_AnswersKeptPerIndex ==
    [][LET i == current_question_index
       IN /\ Len(user_answers') >= Len(user_answers)
          /\ Len(user_answers') <= Len(questions)
          /\ \A k \in 1..Len(user_answers) :
                 k # i + 1 => user_answers'[k] = user_answers[k]
          /\ current_question_index' # i =>
                 /\ Len(user_answers') >= i + 1
                 /\ user_answers'[i + 1] = answer_var
                 /\ current_question_index' + 1 <= Len(user_answers') =>
                        answer_var' =
                            user_answers'[current_question_index' + 1]
      ]_vars

\* C13 witness: the user chose A at the first question, went on, chose C at
\* the second, came back: A is stored at 0 and shown, C stays stored at 1.
C13_Witness ==
    /\ Len(questions) = 2
    /\ current_question_index = 0
    /\ ~quiz_completed
    /\ user_answers = <<"A", "C">>
    /\ answer_var = "A"

----------------------------------------------------------------------------
(* Scoring (checked under SpecScore)                                       *)

\* C14: calculate_score marks index i correct iff an answer is recorded at
\* i and equals the key of question i (a missing or blank answer is
\* incorrect), returns one boolean per question and score = number of
\* correct indices, so 0 <= score <= N; answers A,B,B against keys A,C,B
\* give score 2 and true,false,true.
C14_ScoreCountsMatches ==
    lastCall.op = "calculate_score" =>
        LET N == Len(questions)
            r == lastCall.ret
        IN /\ Len(r.correct_results) = N
           /\ \A i \in 1..N :
                  r.correct_results[i] <=>
                      /\ i <= Len(user_answers)
                      /\ user_answers[i] # ""
                      /\ user_answers[i] = questions[i]
           /\ r.score = Cardinality({i \in 1..N : r.correct_results[i]})
           /\ 0 <= r.score /\ r.score <= N
           /\ (questions = <<"A", "C", "B">>
               /\ user_answers = <<"A", "B", "B">>)
                  => /\ r.score = 2
                     /\ r.correct_results = <<TRUE, FALSE, TRUE>>

\* C14 witness: the scenario has been scored.
C14_Witness ==
    /\ lastCall.op = "calculate_score"
    /\ questions = <<"A", "C", "B">>
    /\ user_answers = <<"A", "B", "B">>
    /\ lastCall.ret.score = 2

----------------------------------------------------------------------------
(* Grades (checked under SpecGrade)                                        *)

\* The grade by whole-number thresholds.
GradeByRule(score, total) ==
    IF total = 0 THEN "F"
    ELSE IF score * 100 >= 90 * total THEN "A"
    ELSE IF score * 100 >= 80 * total THEN "B"
    ELSE IF score * 100 >= 70 * total THEN "C"
    ELSE IF score * 100 >= 60 * total THEN "D"
    ELSE "F"

\* C15: for 0 <= score <= total the grade is A when score*100 >= 90*total,
\* else B from 80, C from 70, D from 60, else F; total 0 gives percentage
\* 0 and grade F; QuizResult.grade and generate_quiz_report give the same
\* grade to the same score and total; 2 of 3 is a D.
C15_GradeThresholds ==
    [][/\ lastCall'.op \in {"QuizResult.grade", "generate_quiz_report"} =>
            LET score == Row.score
                total == Row.total_questions
            IN /\ lastCall'.ret.grade = GradeByRule(score, total)
               /\ total = 0 => /\ lastCall'.ret.percentage = Zero
                               /\ lastCall'.ret.grade = "F"
               /\ (score = 2 /\ total = 3) => lastCall'.ret.grade = "D"
       /\ (/\ lastCall.op = "QuizResult.grade"
           /\ lastCall'.op = "generate_quiz_report")
            => lastCall'.ret.grade = lastCall.ret.grade
      ]_vars

\* C15 witness: 9 right out of 10, exactly on the threshold of A, graded
\* by the report.
C15_Witness ==
    /\ lastCall.op = "generate_quiz_report"
    /\ Row = [score |-> 9, total_questions |-> 10]
    /\ lastCall.ret.grade = "A"

----------------------------------------------------------------------------
(* The scoped connection (checked under SpecConn)                          *)

\* C16: for every use of the scoped connection, a body that finishes
\* without an exception has its writes committed; a body that raises has
\* its uncommitted writes rolled back and the exception goes on to the
\* caller; the connection is closed on every exit path.
C16_ScopedConnection ==
    [][/\ lastCall'.op = "execute_insert" =>
            LET a == lastCall'.arg
                c == lastCall'.ret
                runs == {"quiz_results", "users"} \subseteq db.tables
            IN /\ c.raised <=> ~(runs /\ a.accepted)
               /\ ~c.raised =>
                     db' = [db EXCEPT !.quiz_results =
                               Append(@, [score |-> a.score,
                                          total_questions |->
                                              a.total_questions])]
               /\ c.raised => db' = db
               /\ ~c.open /\ c.working = db'
       /\ lastCall'.op = "execute_update" =>
            LET a == lastCall'.arg
                c == lastCall'.ret
                runs == "questions" \in db.tables
            IN /\ c.raised <=> ~(runs /\ a.accepted)
               /\ ~c.raised =>
                     db' = [db EXCEPT !.qrows = @ /\ ~a.last]
               /\ c.raised => db' = db
               /\ ~c.open /\ c.working = db'
      ]_vars

\* C16 witness: one insert was committed, then a second insert was made
\* and its commit refused: the exception went out, the connection is
\* closed and only the first row is stored.
C16_Witness ==
    /\ lastCall.op = "execute_insert"
    /\ lastCall.ret.raised
    /\ ~lastCall.ret.open
    /\ ~lastCall.arg.accepted
    /\ {"quiz_results", "users"} \subseteq lastCall.before.tables
    /\ Len(lastCall.before.quiz_results) = 1
    /\ db = lastCall.before

----------------------------------------------------------------------------
(* reset_database, rollback_migration, get_pending_migrations (checked     *)
(* under Spec)                                                             *)

EmptyStore ==
    [tables |-> {}, qcols |-> {}, indexes |-> {}, qrows |-> FALSE,
     schema_migrations |-> <<>>, quiz_results |-> <<>>]

\* C17 (as claimed): reset_database() drops every table except
\* schema_migrations, which it leaves in place with its records, then
\* reruns migrate(); when it returns True every registered version is
\* recorded.
C17_ResetKeepsBookkeeping ==
    [][lastCall'.op = "reset_database" =>
          /\ lastCall'.arg.tables = db.tables \cap {"schema_migrations"}
          /\ lastCall'.arg.schema_migrations = db.schema_migrations
          /\ lastCall'.ret => Applied(db') = Versions]_vars

\* C17 (amended): reset_database() drops every table, schema_migrations
\* and its records included, then reruns migrate(), which creates
\* schema_migrations again and applies every registered unit in order from
\* the empty schema; it returns True with every registered version
\* recorded once.
C17_ResetDropsAllThenMigrates ==
    [][lastCall'.op = "reset_database" =>
          /\ lastCall'.arg = EmptyStore
          /\ lastCall'.attempted = migrations
          /\ lastCall'.ret
          /\ db'.schema_migrations = migrations
          /\ Applied(db') = Versions
          /\ SchemaOf(db') =
                 SchemaOf(UpAll(create_migrations_table(EmptyStore),
                                migrations))]_vars

\* C17 witness: reset_database() has run on a store that had 001 and 002
\* recorded; all five are recorded now.
C17_Witness ==
    /\ lastCall.op = "reset_database"
    /\ lastCall.before.schema_migrations = <<1, 2>>
    /\ lastCall.ret
    /\ db.schema_migrations = <<1, 2, 3, 4, 5>>

\* The records of the units other than u, in the order they were made.
OtherRecords(d, u) == SelectSeq(d.schema_migrations, LAMBDA x : x # u)

\* C18: a rollback_migration(u) that fails (its revert step or the record
\* delete raises) leaves schema and schema_migrations exactly as before
\* the call and returns False; succeed or fail, the version records of
\* the units other than u are unchanged.
C18_FailedRollbackChangesNothing ==
    [][lastCall'.op = "rollback_migration" =>
          LET u == lastCall'.arg
          IN /\ ~lastCall'.ret => db' = db
             /\ lastCall'.ret => u \notin Applied(db')
             /\ OtherRecords(db', u) = OtherRecords(db, u)
             /\ "schema_migrations" \in db'.tables
                    <=> "schema_migrations" \in db.tables]_vars

\* C18 witness: rollback_migration(001) on a store without
\* schema_migrations: its down() drops questions and users, the record
\* delete raises, and after the failed call both tables are still there.
C18_Witness ==
    /\ lastCall.op = "rollback_migration"
    /\ lastCall.arg = 1
    /\ ~lastCall.ret
    /\ "schema_migrations" \notin lastCall.before.tables
    /\ {"questions", "users"} \subseteq lastCall.before.tables
    /\ db = lastCall.before

\* The versions found recorded in the store, none when it has no
\* schema_migrations table.
Recorded ==
    IF "schema_migrations" \in db.tables
    THEN {db.schema_migrations[i] : i \in 1..Len(db.schema_migrations)}
    ELSE {}

\* C19: get_pending_migrations() returns exactly the registered units
\* whose version is not recorded in schema_migrations, each once, in
\* ascending version order; with no schema_migrations table it returns
\* all registered units.
C19_PendingIsUnrecordedAscending ==
    LET pending == get_pending_migrations(db)
    IN /\ Ascending(pending)
       /\ RangeOf(pending) = Versions \ Recorded
       /\ "schema_migrations" \notin db.tables
              => pending = <<1, 2, 3, 4, 5>>

\* C19 witness: with 001, 002 and 005 recorded the pending units were 003
\* and 004, and migrate() went for 003 first.
C19_Witness ==
    /\ lastCall.op = "migrate"
    /\ lastCall.before.schema_migrations = <<1, 2, 5>>
    /\ get_pending_migrations(lastCall.before) = <<3, 4>>
    /\ Head(lastCall.attempted) = 3
\* Most rows of a store that has lost its sample questions, largest
\* count asked of get_random_questions.
MaxStored == 2

MaxCount == 3

\* Questions an administrator made: two categories, two difficulties.
MadeQuestions ==
    [prompt : {<<"Is ", "Python", " a snake?">>}, option_a : {<<"yes">>},
     option_b : {<<"no">>}, option_c : {<<"maybe">>}, answer : {"A"},
     category : {<<"General">>, <<"Python">>},
     difficulty : {"Easy", "Hard"}, tags : {<<>>}]

\* The rows of the questions qs made one after the other, the first one
\* in second first, the others in that second or later ones.
RECURSIVE MadeRows(_, _, _)
MadeRows(qs, id, first) ==
    IF qs = <<>> THEN {<<>>}
    ELSE {<<QuestionRow(qs[1], id, first)>> \o rest :
             rest \in UNION {MadeRows(Tail(qs), id + 1, t) :
                                t \in {first, first + 1}}}

\* The stores queried: the new store, and stores whose sample questions
\* were deleted and that hold up to MaxStored questions made later.
QueryStores ==
    {WithQuestions(FreshStore, sample_questions, SeedCount)}
      \cup {WithQuestions(FreshStore, rows, SeedCount + Len(rows)) :
               rows \in UNION {MadeRows(qs, SeedCount + 1, 0) :
                                  qs \in SeqsUpTo(MadeQuestions, MaxStored)}}

Categories == {<<>>, <<<<>>>>, <<<<"General">>>>, <<<<"Python">>>>,
               <<<<"History">>>>}

Difficulties == {<<>>, <<"Easy">>, <<"Medium">>, <<"Hard">>}

\* The queries leave the store as it is: what one returns does not depend
\* on the queries before it, and a behaviour makes one.
QuestionRepository_get_random_questions ==
    /\ lastCall = NoCall
    /\ \E count \in 0..MaxCount, category \in Categories,
          difficulty \in Difficulties :
          \E qs \in get_random_questions(db, count, category, difficulty) :
             lastCall' = Call("get_random_questions",
                              [count |-> count, category |-> category,
                               difficulty |-> difficulty], qs, <<>>)
    /\ UNCHANGED db
    /\ UNCHANGED sessionVars

QuestionRepository_search ==
    /\ lastCall = NoCall
    /\ \E search_term \in {<<>>, <<"Python">>}, category \in Categories,
          difficulty \in Difficulties :
          lastCall' = Call("search",
                           [search_term |-> search_term,
                            category |-> category,
                            difficulty |-> difficulty],
                           search(db, search_term, category, difficulty),
                           <<>>)
    /\ UNCHANGED db
    /\ UNCHANGED sessionVars

InitQuery ==
    /\ db \in QueryStores
    /\ lastCall = NoCall
    /\ NoSession

NextQuery ==
    \/ QuestionRepository_get_random_questions
    \/ QuestionRepository_search

\* Queries on a store of questions.
SpecQuery == InitQuery /\ [][NextQuery]_vars

\* Most users of a store, last second of the clock.
MaxUsers == 2

MaxSeconds == 2

Usernames == {"admin", "bob"}

Passwords == {"admin123", "wrong"}

Users ==
    [username : Usernames, password_hash : Passwords,
     role : {"user", "admin", "guest"}, is_active : BOOLEAN]

UserRepository_create(users, order) ==
    /\ Len(db.user_rows) < MaxUsers
    /\ \E user \in users, accepted \in order :
          LET r == UserRepository_create_run(db, user, accepted)
          IN /\ db' = r.db
             /\ lastCall' = Call("UserRepository.create", user, r.ret,
                                 <<r.conn>>)
    /\ UNCHANGED sessionVars

UserRepository_authenticate ==
    /\ \E username \in Usernames \cup {"eve"}, password \in Passwords,
          now \in {LatestLogin(db.user_rows),
                   LatestLogin(db.user_rows) + 1} :
          LET r == authenticate(db, username, password, now)
          IN /\ now <= MaxSeconds
             /\ db' = r.db
             /\ lastCall' = Call("authenticate",
                                 [username |-> username,
                                  password |-> password, now |-> now],
                                 r.ret, <<>>)
    /\ UNCHANGED sessionVars

InitAuth ==
    /\ db = WithUsers(FreshStore, sample_users, 1)
    /\ lastCall = NoCall
    /\ NoSession

NextAuth ==
    \/ UserRepository_create(Users, {TRUE})
    \/ UserRepository_authenticate

\* Users are made and log in.
SpecAuth == InitAuth /\ [][NextAuth]_vars

\* Questions handed to the repository's writes: the answer and the
\* difficulty may be ones the table refuses.
WrittenQuestions ==
    [prompt : {<<"Is water wet?">>}, option_a : {<<"yes">>},
     option_b : {<<"no">>}, option_c : {<<"maybe">>}, answer : {"A", "D"},
     category : {<<"General">>}, difficulty : {"Easy", "Expert"},
     tags : {<<>>}]

\* Users handed to UserRepository.create: a new name, a taken one, a role
\* the table refuses.
WrittenUsers ==
    {[username |-> "bob", password_hash |-> "wrong", role |-> "user",
      is_active |-> TRUE],
     [username |-> "admin", password_hash |-> "wrong", role |-> "user",
      is_active |-> TRUE],
     [username |-> "bob", password_hash |-> "wrong", role |-> "guest",
      is_active |-> TRUE]}

\* update(question) for the first sample question, the first question
\* made later or an id no row has.
QuestionRepository_update(qs, order) ==
    /\ \E q \in qs, id \in {1, SeedCount + 1, SeedCount + 2},
          accepted \in order :
          LET question == [id |-> id] @@ q
              r == QuestionRepository_update_run(db, question, accepted)
          IN /\ db' = r.db
             /\ lastCall' = Call("update", question, r.ret, <<r.conn>>)
    /\ UNCHANGED sessionVars

QuestionRepository_delete(order) ==
    /\ \E id \in {1, SeedCount + 1, SeedCount + 2}, accepted \in order :
          LET r == QuestionRepository_delete_run(db, id, accepted)
          IN /\ db' = r.db
             /\ lastCall' = Call("delete", id, r.ret, <<r.conn>>)
    /\ UNCHANGED sessionVars

\* create(result) for an anonymous session, for the admin user or for a
\* user id no row has.
QuizResultRepository_create(order) ==
    /\ Len(db.quiz_results) < MaxRows
    /\ \E user_id \in {<<>>, <<1>>, <<7>>}, score \in {1},
          accepted \in order :
          LET r == QuizResultRepository_create_run(db, user_id, score, 1,
                                                   accepted)
          IN /\ db' = r.db
             /\ lastCall' = Call("QuizResultRepository.create",
                                 [user_id |-> user_id, score |-> score,
                                  total_questions |-> 1],
                                 r.ret, <<r.conn>>)
    /\ UNCHANGED sessionVars

\* The new store, and the store whose tables were dropped.
WrittenStores ==
    {WithUsers(WithQuestions(FreshStore, sample_questions, SeedCount),
               sample_users, 1),
     WithUsers(WithQuestions(reset_drop(FreshStore), <<>>, 0), <<>>, 0)}

InitWrite ==
    /\ db \in WrittenStores
    /\ lastCall = NoCall
    /\ NoSession

NextWrite ==
    \/ QuestionRepository_create(WrittenQuestions, BOOLEAN)
    \/ QuestionRepository_update(WrittenQuestions, BOOLEAN)
    \/ QuestionRepository_delete(BOOLEAN)
    \/ UserRepository_create(WrittenUsers, BOOLEAN)
    \/ QuizResultRepository_create(BOOLEAN)
    \/ QuestionRepository_get_by_id

\* The writes of the repositories on a store that may refuse a statement
\* or a commit.
SpecWrite == InitWrite /\ [][NextWrite]_vars

\* Most questions the administrator adds.
MaxMade == 1

\* A question as typed in, every field in order.
TypedQuestion ==
    [prompt |-> <<"w", "a", "t", "e", "r">>,
     options |-> <<<<"y">>, <<"n">>, <<"m">>>>,
     answer |-> "A", category |-> <<"P", "y">>, difficulty |-> "Easy",
     tags |-> <<>>]

\* Prompts: none, blanks, too short, a tag and nothing else, two blanks
\* between words.
TypedPrompts ==
    {<<>>, <<" ", " ", " ", " ", " ">>, <<"w", "a", "t">>,
     <<"<", "w", "a", "t", "e", "r", ">">>,
     <<"w", "a", " ", " ", "t", "e", "r">>}

\* Options: two only, one empty, one blank, one a tag and nothing else.
TypedOptions ==
    {<<<<"y">>, <<"n">>>>, <<<<"y">>, <<>>, <<"m">>>>,
     <<<<"y">>, <<" ">>, <<"m">>>>,
     <<<<"y">>, <<"<", "b", ">">>, <<"m">>>>}

\* What the service is handed: the question above, or that question with
\* one of its fields typed otherwise.
TypedInputs ==
    {TypedQuestion}
      \cup {[TypedQuestion EXCEPT !.prompt = x] : x \in TypedPrompts}
      \cup {[TypedQuestion EXCEPT !.options = x] : x \in TypedOptions}
      \cup {[TypedQuestion EXCEPT !.answer = x] : x \in {"D", ""}}
      \cup {[TypedQuestion EXCEPT !.category = x] :
               x \in {<<>>, <<"<", "i", ">">>}}
      \cup {[TypedQuestion EXCEPT !.difficulty = x] : x \in {"Expert"}}

\* The ids the administrator acts on: the first sample question, the
\* questions added, an id no row has yet.
ActedOn == {1} \cup ((SeedCount + 1)..(SeedCount + MaxMade + 1))

AdminService_create_question ==
    /\ db.question_seq < SeedCount + MaxMade
    /\ \E in \in TypedInputs, now \in Clock(db) :
          LET r == create_question(db, in, now, TRUE)
          IN /\ db' = r.db
             /\ lastCall' = Call("create_question", [in |-> in], r.ret,
                                 r.conns)
    /\ UNCHANGED sessionVars

AdminService_update_question ==
    /\ \E question_id \in ActedOn, in \in TypedInputs :
          LET r == update_question(db, question_id, in, TRUE)
          IN /\ db' = r.db
             /\ lastCall' = Call("update_question",
                                 [question_id |-> question_id, in |-> in],
                                 r.ret, r.conns)
    /\ UNCHANGED sessionVars

AdminService_delete_question ==
    /\ \E question_id \in ActedOn :
          LET r == delete_question(db, question_id, TRUE)
          IN /\ db' = r.db
             /\ lastCall' = Call("delete_question",
                                 [question_id |-> question_id], r.ret,
                                 r.conns)
    /\ UNCHANGED sessionVars

AdminService_duplicate_question ==
    /\ db.question_seq < SeedCount + MaxMade
    /\ \E question_id \in ActedOn, now \in Clock(db) :
          LET r == duplicate_question(db, question_id, now, TRUE)
          IN /\ db' = r.db
             /\ lastCall' = Call("duplicate_question",
                                 [question_id |-> question_id], r.ret,
                                 r.conns)
    /\ UNCHANGED sessionVars

NextAdmin ==
    \/ AdminService_create_question
    \/ AdminService_update_question
    \/ AdminService_delete_question
    \/ AdminService_duplicate_question

\* The administrator's question management on a new store.
SpecAdmin == InitRepo /\ [][NextAdmin]_vars


----------------------------------------------------------------------------
(* QuestionRepository (checked under SpecRepo)                             *)

\* C20: for every valid question q, with any ordered list of free-text
\* tags, create(q) followed by get_by_id of the returned id yields a
\* question whose prompt, three options, answer, category, difficulty and
\* tag list equal those of q.
C20_CreateGetRoundTrip ==
    [][(/\ lastCall.op = "create"
        /\ lastCall'.op = "get_by_id"
        /\ lastCall.ret # Raised
        /\ lastCall'.arg = lastCall.ret.id)
        => LET q == lastCall.arg
               got == lastCall'.ret
           IN /\ got # None
              /\ got.prompt = q.prompt
              /\ got.option_a = q.option_a
              /\ got.option_b = q.option_b
              /\ got.option_c = q.option_c
              /\ got.answer = q.answer
              /\ got.category = q.category
              /\ got.difficulty = q.difficulty
              /\ got.tags = q.tags]_vars

----------------------------------------------------------------------------
(* Queries on questions (checked under SpecQuery)                          *)

\* The ids of a list of questions.
Ids(qs) == {qs[i].id : i \in 1..Len(qs)}

\* The rows a filter asks for: a category or difficulty that is passed
\* (not None) has to be the row's.
Asked(rows, category, difficulty) ==
    SelectSeq(rows, LAMBDA r :
        /\ (category # <<>> => r.category = category[1])
        /\ (difficulty # <<>> => r.difficulty = difficulty[1]))

\* C21: get_random_questions(k) with k at most the number of stored
\* questions that match the optional category/difficulty filter returns
\* exactly k questions, pairwise distinct by id, all present in the store
\* and matching the filter; with the 8 sample questions and k = 3 it
\* returns 3 distinct sample questions.
C21_RandomKDistinctStored ==
    lastCall.op = "get_random_questions"
    => LET a == lastCall.arg
           got == lastCall.ret
           asked == Asked(db.question_rows, a.category, a.difficulty)
       IN /\ a.count <= Len(asked)
             => /\ Len(got) = a.count
                /\ Cardinality(Ids(got)) = a.count
                /\ \A i \in 1..Len(got) :
                      \E j \in 1..Len(asked) :
                         got[i] = _row_to_question(asked[j])
          /\ (/\ db.question_rows = sample_questions
              /\ a.count = 3
              /\ a.category = <<>>
              /\ a.difficulty = <<>>)
             => /\ Len(got) = 3
                /\ Cardinality(Ids(got)) = 3
                /\ Ids(got) \subseteq 1..SeedCount

C21_Witness ==
    /\ lastCall.op = "get_random_questions"
    /\ db.question_rows = sample_questions
    /\ lastCall.arg = [count |-> 3, category |-> <<>>, difficulty |-> <<>>]
    /\ Ids(lastCall.ret) = {8, 1, 5}

\* The categories stored questions have.
StoredCategories == {db.question_rows[i].category :
                        i \in 1..Len(db.question_rows)}

\* C22: for every category C held by at least one stored question,
\* search(term "", category C) returns exactly the stored questions whose
\* category is C: none missing, none of another category.
C22_SearchByCategoryExact ==
    (/\ lastCall.op = "search"
     /\ lastCall.arg.search_term = <<>>
     /\ lastCall.arg.difficulty = <<>>
     /\ lastCall.arg.category # <<>>
     /\ lastCall.arg.category[1] \in StoredCategories)
    => LET C == lastCall.arg.category[1]
           got == lastCall.ret
           held == {i \in 1..Len(db.question_rows) :
                       db.question_rows[i].category = C}
       IN /\ Len(got) = Cardinality(held)
          /\ Ids(got) = {db.question_rows[i].id : i \in held}
          /\ \A i \in 1..Len(got) : got[i].category = C

C22_Witness ==
    /\ lastCall.op = "search"
    /\ lastCall.arg = [search_term |-> <<>>,
                       category |-> <<<<"General">>>>,
                       difficulty |-> <<>>]
    /\ StoredCategories = {<<"General">>, <<"Python">>}
    /\ Len(lastCall.ret) = 1

----------------------------------------------------------------------------
(* Logins (checked under SpecAuth)                                         *)

\* The rows of users with the name u, before the last call.
Named(u) ==
    SelectSeq(lastCall.before.user_rows, LAMBDA r : r.username = u)

\* C23: authenticate(username, password) returns a user iff a user with
\* that name exists, the stored credential equals the password and the
\* user is active; last_login is updated iff the call returns a user and
\* is unchanged otherwise; on a new store authenticate(admin, admin123)
\* returns the user with role admin and authenticate(admin, wrong)
\* returns none.
C23_AuthenticateIffMatch ==
    lastCall.op = "authenticate"
    => LET a == lastCall.arg
           rows == lastCall.before.user_rows
           good == {i \in 1..Len(rows) :
                       /\ rows[i].username = a.username
                       /\ rows[i].password_hash = a.password
                       /\ rows[i].is_active = 1}
       IN /\ (lastCall.ret # None) <=> (good # {})
          /\ lastCall.ret # None
             => /\ lastCall.ret.username = a.username
                /\ Len(db.user_rows) = Len(rows)
                /\ \A i \in 1..Len(rows) :
                      db.user_rows[i] =
                         IF i \in good
                         THEN [rows[i] EXCEPT !.last_login = <<a.now>>]
                         ELSE rows[i]
          /\ lastCall.ret = None => db.user_rows = rows
          /\ (rows = sample_users /\ a.username = "admin")
             => IF a.password = "admin123"
                THEN lastCall.ret # None /\ lastCall.ret.role = "admin"
                ELSE lastCall.ret = None

\* bob logs in after admin did, in a later second.
C23_Witness ==
    /\ lastCall.op = "authenticate"
    /\ lastCall.ret # None
    /\ lastCall.ret.username = "bob"
    /\ \E i \in 1..Len(db.user_rows) :
          /\ db.user_rows[i].username = "admin"
          /\ db.user_rows[i].last_login # <<>>
          /\ db.user_rows[i].last_login # db.user_rows[2].last_login

----------------------------------------------------------------------------
(* Failing writes and reads (checked under SpecWrite)                      *)

Writes == {"create", "update", "delete", "UserRepository.create",
           "QuizResultRepository.create"}

\* C24: a storage failure (I/O or constraint violation) during a write of
\* a repository (QuestionRepository create, update or delete,
\* UserRepository.create, QuizResultRepository.create) is rolled back and
\* then raised to the caller, never turned into a returned value, whereas
\* a storage failure during a read is absorbed into None.
C24_WriteFailuresPropagate ==
    /\ (lastCall.op \in Writes /\ lastCall.attempted[1].raised)
       => /\ db = lastCall.before
          /\ lastCall.ret = Raised
    /\ (lastCall.op = "get_by_id" /\ ~Readable(lastCall.before))
       => lastCall.ret = None

\* C24, amended: a storage failure during a create of a repository is
\* rolled back and then raised to the caller; one during
\* QuestionRepository update or delete is rolled back and absorbed into
\* the returned value False; one during a read is absorbed into None.
C24_CreatesRaiseOthersReturnFalse ==
    /\ (lastCall.op \in Writes /\ lastCall.attempted[1].raised)
       => /\ db = lastCall.before
          /\ IF lastCall.op \in {"update", "delete"}
             THEN lastCall.ret = [success |-> FALSE]
             ELSE lastCall.ret = Raised
    /\ (lastCall.op = "get_by_id" /\ ~Readable(lastCall.before))
       => lastCall.ret = None

\* A create whose INSERT the table took and whose commit the store
\* refused.
C24_Witness ==
    /\ lastCall.op = "create"
    /\ Readable(lastCall.before)
    /\ RowAccepted(lastCall.arg)
    /\ lastCall.attempted[1].raised
    /\ lastCall.ret = Raised

----------------------------------------------------------------------------
(* Question management (checked under SpecAdmin)                           *)

\* The input breaks a constraint of the data model: prompt or an option
\* empty, not exactly three options, answer not A, B or C, difficulty not
\* Easy, Medium or Hard.
BreaksConstraints(in) ==
    \/ in.prompt = <<>>
    \/ Len(in.options) # 3
    \/ \E i \in 1..Len(in.options) : in.options[i] = <<>>
    \/ in.answer \notin {"A", "B", "C"}
    \/ in.difficulty \notin {"Easy", "Medium", "Hard"}

\* C25: every create_question or update_question call whose input breaks
\* a constraint of the data model returns a failure tuple with a message,
\* and no write is attempted on the store: the questions table is
\* unchanged.
C25_InvalidInputNeverReachesStore ==
    (/\ lastCall.op \in {"create_question", "update_question"}
     /\ BreaksConstraints(lastCall.arg.in))
    => /\ ~lastCall.ret.success
       /\ lastCall.ret.message # ""
       /\ lastCall.attempted = <<>>
       /\ db.question_rows = lastCall.before.question_rows

\* C26: every question row in the store, after any sequence of
\* create_question, update_question, duplicate_question and
\* delete_question calls, has a non-empty prompt, three non-empty options
\* and an answer among A, B and C.
C26_StoredRowsWellFormed ==
    \A i \in 1..Len(db.question_rows) :
       LET row == db.question_rows[i]
       IN /\ row.prompt # <<>>
          /\ row.option_a # <<>>
          /\ row.option_b # <<>>
          /\ row.option_c # <<>>
          /\ row.answer \in {"A", "B", "C"}

----------------------------------------------------------------------------
(* Failures while a session is finished (checked under SpecFinish)         *)

\* C27: when persisting the result fails while a session is being
\* finished, the _finish_quiz that met the failure does not end in the
\* completion message, and no result record is persisted by it.
C27_FailedFinishReportsFailure ==
    [][(/\ lastCall' # lastCall
        /\ lastCall'.op = "_finish_quiz"
        /\ ~lastCall'.ret.success)
        => /\ (IF lastCall'.arg.by = "main" THEN mainPc' ELSE tickPc')
                 # "info"
           /\ db'.quiz_results = db.quiz_results]_vars

----------------------------------------------------------------------------
(* The migration engine on a new store (checked under Spec)                *)

\* What the first migrate() does to a store freshly initialised by
\* DatabaseManager: 001 and 002 recorded, 003 attempted and failed, 003,
\* 004 and 005 left pending.
FirstMigrateFailsAt003 ==
    (db = FreshStore /\ lastCall'.op = "migrate")
    => /\ lastCall'.attempted = <<1, 2, 3>>
       /\ ~lastCall'.ret
       /\ Applied(db') = {1, 2}
       /\ get_pending_migrations(db') = <<3, 4, 5>>

\* The store that migrate() left: 001 and 002 recorded and nothing else,
\* the questions table with its tags column.
StuckAt003(d) ==
    /\ Applied(d) = {1, 2}
    /\ "questions" \in d.tables
    /\ "tags" \in d.qcols

\* The store the first migrate() leaves of a freshly initialised one.
LeftByFirstMigrate == migrate_run(FreshStore).db

\* C28 as stated: the first migrate() on a freshly initialised store
\* records 001 and 002 and fails at 003; on the store it leaves, calls
\* other than reset_database() never bring the store up to date, and a
\* migrate() among them fails at 003 again.  Stated for the two calls that
\* follow the first migrate().
C28_StuckUntilReset ==
    [][/\ FirstMigrateFailsAt003
       /\ (/\ lastCall.before = LeftByFirstMigrate
           /\ lastCall.op # "reset_database"
           /\ lastCall'.op # "reset_database")
          => /\ PendingSet(db') # {}
             /\ lastCall'.op = "migrate"
                  => /\ ~lastCall'.ret
                     /\ Last(lastCall'.attempted) = 3]_vars

\* C28, amended: the first migrate() on a freshly initialised store
\* records 001 and 002, fails at 003, returns False and leaves 003, 004
\* and 005 pending; every migrate() on the store it left attempts 003
\* only, fails and changes nothing, so no sequence of migrate() calls
\* alone brings the store up to date.
C28_MigrateAloneStaysStuck ==
    [][/\ FirstMigrateFailsAt003
       /\ (db = FreshStore /\ lastCall'.op = "migrate") => StuckAt003(db')
       /\ (StuckAt003(db) /\ lastCall'.op = "migrate")
            => /\ lastCall'.attempted = <<3>>
               /\ ~lastCall'.ret
               /\ db' = db
               /\ PendingSet(db') # {}]_vars

\* A later migrate() has run on the store the first one left.
C28_Witness ==
    /\ lastCall.op = "migrate"
    /\ StuckAt003(lastCall.before)
    /\ lastCall.attempted = <<3>>
    /\ ~lastCall.ret
    /\ db = lastCall.before

----------------------------------------------------------------------------
(* The selection on display at an auto-submit (checked under SpecQuiz)     *)

----------------------------------------------------------------------------
(* A session without countdown (checked under SpecQuiz)                    *)

====
